---- MODULE Spec2Model ----
(***************************************************************************)
(* State-machine model of the order construction and validation engine of  *)
(* Schwab_EZ_Orders (src/schwab_order_builder.py): the price formatter,    *)
(* the OrderLeg record, and the OrderBuilder with its fluent operations,   *)
(* validation and payload construction.                                    *)
(*                                                                         *)
(* Conventions                                                             *)
(*  - A Python Optional value is a sequence of length <= 1: None is <<>>   *)
(*    and a set value v is <<v>>.                                          *)
(*  - A raw price (a Python float written as a decimal literal) is an      *)
(*    integer number of units of 10^-5, so 150.567 is 15056700.  The code  *)
(*    goes through Decimal(str(price)), which is exact on such literals.   *)
(*  - A call that raises is recorded in last.exc; the assignments the      *)
(*    method made before the raise stay, as in Python.                     *)
(***************************************************************************)
EXTENDS Integers, Sequences, FiniteSets, TLC

VARIABLES
    builders,        \* builder id -> the attributes of that OrderBuilder object
    last,            \* the most recent call: operation, receiver, arguments, outcome
    RICH_AVAILABLE,  \* whether the rich console could be imported
    raw,             \* the raw price handed to the price formatter (format runs)
    templates,       \* template name -> the template file of that name, if any
    strategy,        \* the StrategyBuilder (or CoveredCall) object of the run
    ez,              \* the EZOrders facade object of the run
    client,          \* the payloads client_submit_func has been called with, in order
    log              \* the calls of the preview and submission functions, in order

vars == <<builders, RICH_AVAILABLE, raw, templates, strategy, ez, client, log, last>>

(***************************************************************************)
(* Optional values                                                         *)
(***************************************************************************)
None == <<>>
Some(v) == <<v>>
Val(o) == o[1]

\* Python truthiness of an Optional[str]: None and "" are falsy.
Truthy(o) == o # None /\ Val(o) # ""

(***************************************************************************)
(* Outcome of a call: it returned a value, or raised.                      *)
(***************************************************************************)
Return(v) == [exc |-> "", msg |-> "", value |-> v]
Raise(e, m) == [exc |-> e, msg |-> m, value |-> None]

(***************************************************************************)
(* Price formatter                                                         *)
(***************************************************************************)
\* The number of raw units in 1.0 (a raw price has 5 fractional digits).
Scale == 10 ^ 5

Abs(n) == IF n < 0 THEN 0 - n ELSE n

\* Decimal.quantize(Decimal('0.0001' or '0.01'), rounding=ROUND_DOWN): the
\* coefficient of the result, which has `digits` fractional digits.
\* ROUND_DOWN rounds toward zero.
quantize_RoundHalfUp(units, digits) ==
    LET k == Scale \div (10 ^ digits)
    IN  IF units >= 0 THEN (units + k \div 2) \div k
                      ELSE 0 - ((Abs(units) + k \div 2) \div k)

quantize(units, digits) ==
    LET k == Scale \div (10 ^ digits)
    IN  IF units >= 0 THEN units \div k ELSE 0 - (Abs(units) \div k)

\* The digits of n, zero-padded on the left to width w.
RECURSIVE ZeroPad(_, _)
ZeroPad(n, w) == IF w = 0 THEN "" ELSE ZeroPad(n \div 10, w - 1) \o ToString(n % 10)

\* str(Decimal) of a quantized value: coefficient coef with `digits`
\* fractional digits.
DecimalStr(coef, digits) ==
    (IF coef < 0 THEN "-" ELSE "")
        \o ToString(Abs(coef) \div (10 ^ digits))
        \o "." \o ZeroPad(Abs(coef) % (10 ^ digits), digits)

\* The number of fractional digits the formatter keeps for a raw price.
PriceDigits(price) == IF Abs(price) < Scale THEN 4 ELSE 2

\* decimal_price of _format_price, as [coef, digits].
decimal_price(price) ==
    [coef |-> quantize(price, PriceDigits(price)), digits |-> PriceDigits(price)]

_format_price(price) ==
    IF price <= 0
    THEN Raise("ValidationError", "Price must be positive")
    ELSE Return(DecimalStr(decimal_price(price).coef, decimal_price(price).digits))

\* The raw prices the runs give to the pricing selectors.
GoodPrice == 150 * Scale + 56700        \* 150.567
Prices == {0, 12345, GoodPrice}         \* 0, 0.12345, 150.567

(***************************************************************************)
(* OrderLeg and the state of an OrderBuilder                               *)
(***************************************************************************)
OrderLeg(action, symbol, quantity, asset_type) ==
    [action |-> action, symbol |-> symbol, quantity |-> quantity,
     asset_type |-> asset_type]

\* str.upper() on the symbols the runs use.
upper(symbol) ==
    CASE symbol = "aapl" -> "AAPL"
      [] symbol = "xyz" -> "XYZ"
      [] OTHER -> symbol

\* OrderBuilder.reset: every attribute back to its initial value.  The
\* console attribute is set by __init__ and is not touched by reset.
reset(self) ==
    [console |-> self.console,
     legs |-> <<>>,
     order_type |-> None,
     price |-> None,
     stop_price |-> None,
     time_in_force |-> "DAY",
     session |-> "NORMAL",
     require_confirm |-> FALSE,
     warnings |-> <<>>,
     complex_order_strategy |-> "NONE",
     order_strategy |-> "SINGLE",
     child_orders |-> <<>>,
     stop_price_link_basis |-> None,
     stop_price_link_type |-> None,
     stop_price_offset |-> None]

\* OrderBuilder.__init__ with no console argument: a console exists exactly
\* when rich could be imported.
OrderBuilder(rich) == reset([console |-> rich])

\* OrderBuilder._add_warning: the message is appended (and printed when a
\* console exists, which leaves no trace in the builder).
_add_warning(self, message) == [self EXCEPT !.warnings = Append(@, message)]

\* _add_leg putting the new leg in front of the others.
_add_leg_Prepend(self, action, symbol, asset_type) ==
    [self EXCEPT !.legs = <<OrderLeg(action, symbol, 0, asset_type)>> \o @]

\* OrderBuilder._add_leg: a new leg with quantity 0 at the end of legs.
_add_leg(self, action, symbol, asset_type) ==
    [self EXCEPT !.legs = Append(@, OrderLeg(action, symbol, 0, asset_type))]

\* f"{quantity:,}": decimal digits with thousands separators.
RECURSIVE Commas(_)
Commas(n) ==
    IF n < 0 THEN "-" \o Commas(0 - n)
    ELSE IF n < 1000 THEN ToString(n)
    ELSE Commas(n \div 1000) \o "," \o ZeroPad(n % 1000, 3)

\* A method's effect: the receiver's attributes after the call and the
\* call's outcome.
Effect(self, out) == [self |-> self, out |-> out]

(***************************************************************************)
(* Basic actions, options actions, multi-leg helpers                       *)
(***************************************************************************)
buy(self, symbol) == Effect(_add_leg(self, "BUY", upper(symbol), "EQUITY"), Return("self"))
sell(self, symbol) == Effect(_add_leg(self, "SELL", upper(symbol), "EQUITY"), Return("self"))
sell_short(self, symbol) ==
    Effect(_add_leg(self, "SELL_SHORT", upper(symbol), "EQUITY"), Return("self"))
buy_to_cover(self, symbol) ==
    Effect(_add_leg(self, "BUY_TO_COVER", upper(symbol), "EQUITY"), Return("self"))
buy_to_open(self, symbol) ==
    Effect(_add_leg(self, "BUY_TO_OPEN", upper(symbol), "OPTION"), Return("self"))
sell_to_close(self, symbol) ==
    Effect(_add_leg(self, "SELL_TO_CLOSE", upper(symbol), "OPTION"), Return("self"))
sell_to_open(self, symbol) ==
    Effect(_add_leg(self, "SELL_TO_OPEN", upper(symbol), "OPTION"), Return("self"))
buy_to_close(self, symbol) ==
    Effect(_add_leg(self, "BUY_TO_CLOSE", upper(symbol), "OPTION"), Return("self"))

add_leg(self, action, symbol, asset_type) ==
    Effect(_add_leg(self, action, upper(symbol), asset_type), Return("self"))

\* with_leg writes the quantity straight into the new leg.
with_leg(self, action, symbol, quantity, asset_type) ==
    LET s1 == _add_leg(self, action, upper(symbol), asset_type)
    IN  Effect([s1 EXCEPT !.legs[Len(s1.legs)].quantity = quantity], Return("self"))

(***************************************************************************)
(* Quantity                                                                *)
(***************************************************************************)
_set_quantity_FirstLeg(self, quantity, unit) ==
    IF self.legs = <<>>
    THEN Effect(self, Raise("ValidationError",
                            "Must specify buy/sell action before quantity"))
    ELSE IF quantity <= 0
    THEN Effect(self, Raise("ValidationError", "Quantity must be positive"))
    ELSE Effect([self EXCEPT !.legs[1].quantity = quantity], Return("self"))

_set_quantity_QuantityFirst(self, quantity, unit) ==
    IF quantity <= 0
    THEN Effect(self, Raise("ValidationError", "Quantity must be positive"))
    ELSE IF self.legs = <<>>
    THEN Effect(self, Raise("ValidationError",
                            "Must specify buy/sell action before quantity"))
    ELSE Effect([self EXCEPT !.legs[Len(self.legs)].quantity = quantity], Return("self"))

_set_quantity(self, quantity, unit) ==
    IF self.legs = <<>>
    THEN Effect(self, Raise("ValidationError",
                            "Must specify buy/sell action before quantity"))
    ELSE IF quantity <= 0
    THEN Effect(self, Raise("ValidationError", "Quantity must be positive"))
    ELSE LET s1 == [self EXCEPT !.legs[Len(self.legs)].quantity = quantity]
         IN  IF unit = "shares" /\ quantity > 1000
             THEN Effect(_add_warning(s1, "Large order: " \o Commas(quantity) \o " shares"),
                         Return("self"))
             ELSE IF unit = "contracts" /\ quantity > 10
             THEN Effect(_add_warning(s1, "Large options order: " \o ToString(quantity)
                                              \o " contracts"),
                         Return("self"))
             ELSE Effect(s1, Return("self"))

shares(self, quantity) == _set_quantity(self, quantity, "shares")
contracts(self, quantity) == _set_quantity(self, quantity, "contracts")

(***************************************************************************)
(* Pricing                                                                 *)
(***************************************************************************)
market(self) ==
    LET s1 == [self EXCEPT !.order_type = Some("MARKET"), !.price = None]
    IN  IF Len(self.legs) > 0 /\ self.legs[Len(self.legs)].quantity > 500
        THEN Effect(_add_warning(s1, "Large market order - consider using limit order"),
                    Return("self"))
        ELSE Effect(s1, Return("self"))

limit(self, price) ==
    LET s1 == [self EXCEPT !.order_type = Some("LIMIT")]
        fp == _format_price(price)
    IN  IF fp.exc # "" THEN Effect(s1, fp)
        ELSE Effect([s1 EXCEPT !.price = Some(fp.value)], Return("self"))

stop(self, stop_price) ==
    LET s1 == [self EXCEPT !.order_type = Some("STOP")]
        fp == _format_price(stop_price)
    IN  IF fp.exc # "" THEN Effect(s1, fp)
        ELSE Effect([s1 EXCEPT !.stop_price = Some(fp.value)], Return("self"))

stop_limit(self, stop_price, limit_price) ==
    LET s1 == [self EXCEPT !.order_type = Some("STOP_LIMIT")]
        fs == _format_price(stop_price)
        s2 == [s1 EXCEPT !.stop_price = Some(fs.value)]
        fl == _format_price(limit_price)
    IN  IF fs.exc # "" THEN Effect(s1, fs)
        ELSE IF fl.exc # "" THEN Effect(s2, fl)
        ELSE Effect([s2 EXCEPT !.price = Some(fl.value)], Return("self"))

\* The offset is stored as given: it does not go through _format_price.
trailing_stop(self, offset, offset_type, basis) ==
    Effect([self EXCEPT !.order_type = Some("TRAILING_STOP"),
                        !.stop_price_link_basis = Some(basis),
                        !.stop_price_link_type = Some(offset_type),
                        !.stop_price_offset = Some(offset)],
           Return("self"))

trailing_stop_limit(self, offset, limit_price, offset_type, basis) ==
    LET s1 == [self EXCEPT !.order_type = Some("TRAILING_STOP_LIMIT")]
        fl == _format_price(limit_price)
    IN  IF fl.exc # "" THEN Effect(s1, fl)
        ELSE Effect([s1 EXCEPT !.price = Some(fl.value),
                               !.stop_price_link_basis = Some(basis),
                               !.stop_price_link_type = Some(offset_type),
                               !.stop_price_offset = Some(offset)],
                    Return("self"))

net_debit(self, max_debit) ==
    LET s1 == [self EXCEPT !.order_type = Some("NET_DEBIT")]
        fp == _format_price(max_debit)
    IN  IF fp.exc # "" THEN Effect(s1, fp)
        ELSE Effect([s1 EXCEPT !.price = Some(fp.value)], Return("self"))

net_credit(self, min_credit) ==
    LET s1 == [self EXCEPT !.order_type = Some("NET_CREDIT")]
        fp == _format_price(min_credit)
    IN  IF fp.exc # "" THEN Effect(s1, fp)
        ELSE Effect([s1 EXCEPT !.price = Some(fp.value)], Return("self"))

net_zero(self) ==
    Effect([self EXCEPT !.order_type = Some("NET_ZERO"), !.price = Some("0.00")],
           Return("self"))

(***************************************************************************)
(* Time in force, complex strategies, safeguards                           *)
(***************************************************************************)
day(self) == Effect([self EXCEPT !.time_in_force = "DAY"], Return("self"))
gtc(self) == Effect([self EXCEPT !.time_in_force = "GOOD_TILL_CANCEL"], Return("self"))
ioc(self) == Effect([self EXCEPT !.time_in_force = "IMMEDIATE_OR_CANCEL"], Return("self"))
fok(self) == Effect([self EXCEPT !.time_in_force = "FILL_OR_KILL"], Return("self"))

vertical_spread(self) ==
    Effect([self EXCEPT !.complex_order_strategy = "VERTICAL"], Return("self"))
iron_condor_strategy(self) ==
    Effect([self EXCEPT !.complex_order_strategy = "IRON_CONDOR"], Return("self"))
straddle_strategy(self) ==
    Effect([self EXCEPT !.complex_order_strategy = "STRADDLE"], Return("self"))
strangle_strategy(self) ==
    Effect([self EXCEPT !.complex_order_strategy = "STRANGLE"], Return("self"))
butterfly_strategy(self) ==
    Effect([self EXCEPT !.complex_order_strategy = "BUTTERFLY"], Return("self"))
custom_strategy(self) ==
    Effect([self EXCEPT !.complex_order_strategy = "CUSTOM"], Return("self"))

require_confirmation(self) == Effect([self EXCEPT !.require_confirm = TRUE], Return("self"))

(***************************************************************************)
(* Conditional orders: the child is kept by reference (its builder id).    *)
(***************************************************************************)
\* one_triggers_other that leaves the composition mode as it was.
one_triggers_other_NoMode(self, triggered_order) ==
    Effect([self EXCEPT !.child_orders = Append(@, triggered_order)], Return("self"))

one_triggers_other(self, triggered_order) ==
    Effect([self EXCEPT !.order_strategy = "TRIGGER",
                        !.child_orders = Append(@, triggered_order)],
           Return("self"))

\* one_cancels_other putting the new child in front of the others.
one_cancels_other_Prepend(self, other_order) ==
    Effect([self EXCEPT !.order_strategy = "OCO",
                        !.child_orders = <<other_order>> \o @],
           Return("self"))

one_cancels_other(self, other_order) ==
    Effect([self EXCEPT !.order_strategy = "OCO",
                        !.child_orders = Append(@, other_order)],
           Return("self"))

(***************************************************************************)
(* Validation                                                              *)
(***************************************************************************)
\* The first leg, in leg order, whose quantity is not positive.
FirstBadLeg(legs) ==
    legs[CHOOSE i \in 1..Len(legs) :
            /\ legs[i].quantity <= 0
            /\ \A j \in 1..(i - 1) : legs[j].quantity > 0]

\* _validate_order without the two checks on the legs.
_validate_order_NoLegChecks(self) ==
    IF self.order_type = Some("LIMIT") /\ self.price = None
    THEN Effect(self, Raise("ValidationError", "Limit orders require a price"))
    ELSE IF self.order_type = Some("STOP") /\ self.stop_price = None
    THEN Effect(self, Raise("ValidationError", "Stop orders require a stop price"))
    ELSE IF self.order_type = Some("STOP_LIMIT")
            /\ (self.price = None \/ self.stop_price = None)
    THEN Effect(self, Raise("ValidationError",
                            "Stop-limit orders require both stop price and limit price"))
    ELSE IF self.order_type \in {Some("NET_DEBIT"), Some("NET_CREDIT")} /\ self.price = None
    THEN Effect(self, Raise("ValidationError", "Net debit/credit orders require a price"))
    ELSE IF self.order_type \in {Some("TRAILING_STOP"), Some("TRAILING_STOP_LIMIT")}
            /\ self.stop_price_offset = None
    THEN Effect(self, Raise("ValidationError", "Trailing stop orders require an offset"))
    ELSE IF self.order_strategy \in {"OCO", "TRIGGER"} /\ self.child_orders = <<>>
    THEN Effect(self, Raise("ValidationError", "Conditional orders require child orders"))
    ELSE Effect(self, Return(None))

\* _validate_order without the check of the stop price of a STOP order.
_validate_order_NoStopCheck(self) ==
    IF self.legs = <<>>
    THEN Effect(self, Raise("ValidationError", "Order must have at least one leg"))
    ELSE IF \E i \in 1..Len(self.legs) : self.legs[i].quantity <= 0
    THEN Effect(self, Raise("ValidationError", "Invalid quantity"))
    ELSE IF self.order_type = Some("LIMIT") /\ self.price = None
    THEN Effect(self, Raise("ValidationError", "Limit orders require a price"))
    ELSE IF self.order_type = Some("STOP_LIMIT")
            /\ (self.price = None \/ self.stop_price = None)
    THEN Effect(self, Raise("ValidationError",
                            "Stop-limit orders require both stop price and limit price"))
    ELSE IF self.order_type \in {Some("NET_DEBIT"), Some("NET_CREDIT")} /\ self.price = None
    THEN Effect(self, Raise("ValidationError", "Net debit/credit orders require a price"))
    ELSE IF self.order_type \in {Some("TRAILING_STOP"), Some("TRAILING_STOP_LIMIT")}
            /\ self.stop_price_offset = None
    THEN Effect(self, Raise("ValidationError", "Trailing stop orders require an offset"))
    ELSE IF self.order_strategy \in {"OCO", "TRIGGER"} /\ self.child_orders = <<>>
    THEN Effect(self, Raise("ValidationError", "Conditional orders require child orders"))
    ELSE Effect(self, Return(None))

_validate_order(self) ==
    IF self.legs = <<>>
    THEN Effect(self, Raise("ValidationError", "Order must have at least one leg"))
    ELSE IF \E i \in 1..Len(self.legs) : self.legs[i].quantity <= 0
    THEN Effect(self, Raise("ValidationError",
                            "Invalid quantity for " \o FirstBadLeg(self.legs).symbol
                                \o ": " \o ToString(FirstBadLeg(self.legs).quantity)))
    ELSE IF self.order_type = Some("LIMIT") /\ self.price = None
    THEN Effect(self, Raise("ValidationError", "Limit orders require a price"))
    ELSE IF self.order_type = Some("STOP") /\ self.stop_price = None
    THEN Effect(self, Raise("ValidationError", "Stop orders require a stop price"))
    ELSE IF self.order_type = Some("STOP_LIMIT")
            /\ (self.price = None \/ self.stop_price = None)
    THEN Effect(self, Raise("ValidationError",
                            "Stop-limit orders require both stop price and limit price"))
    ELSE IF self.order_type \in {Some("NET_DEBIT"), Some("NET_CREDIT")} /\ self.price = None
    THEN Effect(self, Raise("ValidationError", "Net debit/credit orders require a price"))
    ELSE IF self.order_type \in {Some("TRAILING_STOP"), Some("TRAILING_STOP_LIMIT")}
            /\ self.stop_price_offset = None
    THEN Effect(self, Raise("ValidationError", "Trailing stop orders require an offset"))
    ELSE LET s1 == IF /\ Len(self.legs) > 1
                      /\ \E i \in 1..Len(self.legs) : self.legs[i].asset_type = "OPTION"
                      /\ self.complex_order_strategy = "NONE"
                   THEN _add_warning(self,
                            "Multi-leg options order should specify complex strategy type")
                   ELSE self
         IN  IF s1.order_strategy \in {"OCO", "TRIGGER"} /\ s1.child_orders = <<>>
             THEN Effect(s1, Raise("ValidationError",
                                   "Conditional orders require child orders"))
             ELSE Effect(s1, Return(None))

\* validate(): True when _validate_order returns, False when it raises
\* ValidationError (the only exception it raises).
validate(self) ==
    LET v == _validate_order(self) IN Effect(v.self, Return(v.out.exc = ""))

\* _confirm_order: without a console the order counts as confirmed; with one
\* the (stripped, lower-cased) response decides.
_confirm_order(self, response) ==
    IF ~self.console THEN TRUE ELSE response \in {"y", "yes"}

\* build() reaches the input() prompt of _confirm_order: confirmation is
\* required and the builder has a console.
Prompts(self) == self.require_confirm /\ self.console

(***************************************************************************)
(* Building the payload                                                    *)
(***************************************************************************)
\* The builders attached to b as child orders.
Children(bs, b) == {bs[b].child_orders[i] : i \in 1..Len(bs[b].child_orders)}

\* The builders reachable from the set S through child_orders in at most n
\* steps (S itself not included unless reached).
RECURSIVE ReachWithin(_, _, _)
ReachWithin(bs, S, n) ==
    IF n = 0 THEN {}
    ELSE LET next == UNION {Children(bs, c) : c \in S}
         IN  next \cup ReachWithin(bs, next, n - 1)

\* The proper descendants of b in the order tree.
Descendants(bs, b) == ReachWithin(bs, {b}, Cardinality(DOMAIN bs))

\* The recursion of _build_schwab_order from b runs into a builder that is
\* its own descendant.
Cyclic(bs, b) == \E c \in {b} \cup Descendants(bs, b) : c \in Descendants(bs, c)

order_leg(leg) ==
    [instruction |-> leg.action,
     quantity |-> leg.quantity,
     instrument |-> [symbol |-> leg.symbol, assetType |-> leg.asset_type]]

\* The dict `order` that _build_schwab_order returns for builder b, as a
\* function from the keys present to their values.  Defined on trees only.
RECURSIVE order(_, _)
order(bs, b) ==
    LET self == bs[b]
    IN  [session |-> self.session,
         duration |-> self.time_in_force,
         orderType |-> IF Truthy(self.order_type) THEN Val(self.order_type) ELSE "MARKET",
         orderStrategyType |-> self.order_strategy,
         orderLegCollection |-> [i \in 1..Len(self.legs) |-> order_leg(self.legs[i])]]
        @@ (IF self.complex_order_strategy # "NONE"
            THEN "complexOrderStrategyType" :> self.complex_order_strategy ELSE <<>>)
        @@ (IF Truthy(self.price) THEN "price" :> Val(self.price) ELSE <<>>)
        @@ (IF Truthy(self.stop_price) THEN "stopPrice" :> Val(self.stop_price) ELSE <<>>)
        @@ (IF Truthy(self.stop_price_link_basis)
            THEN "stopPriceLinkBasis" :> Val(self.stop_price_link_basis) ELSE <<>>)
        @@ (IF Truthy(self.stop_price_link_type)
            THEN "stopPriceLinkType" :> Val(self.stop_price_link_type) ELSE <<>>)
        @@ (IF self.stop_price_offset # None
            THEN "stopPriceOffset" :> Val(self.stop_price_offset) ELSE <<>>)
        @@ (IF self.child_orders # <<>>
            THEN "childOrderStrategies" :>
                     [i \in 1..Len(self.child_orders) |-> order(bs, self.child_orders[i])]
            ELSE <<>>)

\* _build_schwab_order: no validation of the children, only their payloads.
\* A builder that is its own descendant makes the recursion exceed Python's
\* recursion limit.
_build_schwab_order(bs, b) ==
    IF Cyclic(bs, b)
    THEN Raise("RecursionError", "maximum recursion depth exceeded")
    ELSE Return(order(bs, b))

\* build() that leaves the builder reset once the payload is built.
build_ThenReset(bs, b, response) ==
    LET v == _validate_order(bs[b])
    IN  IF v.out.exc # "" THEN Effect(v.self, v.out)
        ELSE IF v.self.require_confirm /\ v.self.console
                /\ ~_confirm_order(v.self, response)
        THEN Effect(v.self, Raise("ValidationError", "Order cancelled by user"))
        ELSE Effect(reset(v.self), _build_schwab_order([bs EXCEPT ![b] = v.self], b))

\* build(): validate, ask for confirmation when required and a console
\* exists, then build the payload.
build(bs, b, response) ==
    LET v == _validate_order(bs[b])
    IN  IF v.out.exc # "" THEN Effect(v.self, v.out)
        ELSE IF v.self.require_confirm /\ v.self.console
                /\ ~_confirm_order(v.self, response)
        THEN Effect(v.self, Raise("ValidationError", "Order cancelled by user"))
        ELSE Effect(v.self, _build_schwab_order([bs EXCEPT ![b] = v.self], b))

(***************************************************************************)
(* Templates: a template file holds the legs, order type, price, stop      *)
(* price, time in force and session (and a name, description and date).    *)
(* json.dump / json.load keep strings, integers and None as they are.      *)
(***************************************************************************)
TemplateNames == {"t"}

\* The dict save_template writes under order_templates/<name>.json.
template(self) ==
    [legs |-> self.legs, order_type |-> self.order_type, price |-> self.price,
     stop_price |-> self.stop_price, time_in_force |-> self.time_in_force,
     session |-> self.session]

\* OrderBuilder.load_template(name): a new builder with the template's
\* fields, everything else as constructed; raises when the file is missing.
load_template(files, name, rich) ==
    IF files[name] = None
    THEN Effect(OrderBuilder(rich), Raise("FileNotFoundError", "Template not found"))
    ELSE Effect([OrderBuilder(rich) EXCEPT
                    !.legs = Val(files[name]).legs,
                    !.order_type = Val(files[name]).order_type,
                    !.price = Val(files[name]).price,
                    !.stop_price = Val(files[name]).stop_price,
                    !.time_in_force = Val(files[name]).time_in_force,
                    !.session = Val(files[name]).session],
                Return("builder"))

(***************************************************************************)
(* StrategyBuilder: a list of orders, kept by reference (builder ids).     *)
(***************************************************************************)
\* StrategyBuilder.__init__ (CoveredCall.__init__ adds stock_quantity = 0).
\* The console is the one given, here the facade's, which exists exactly
\* when rich could be imported.
StrategyBuilder(underlying, console) ==
    [underlying |-> upper(underlying), console |-> console, orders |-> <<>>,
     stock_quantity |-> 0]

\* StrategyBuilder.add_order
add_order(self, order_id) == [self EXCEPT !.orders = Append(@, order_id)]

\* [order.build() for order in orders]: the orders are built one after the
\* other; the first build that raises ends the comprehension with that
\* exception, and the builders built so far keep what build() did to them.
\* responses[i] is the user's answer should the i-th build prompt.
RECURSIVE BuildEach(_, _, _, _)
BuildEach(bs, orders, responses, built) ==
    IF orders = <<>> THEN [bs |-> bs, out |-> Return(built)]
    ELSE LET eff == build(bs, Head(orders), Head(responses))
             bs1 == [bs EXCEPT ![Head(orders)] = eff.self]
         IN  IF eff.out.exc # ""
             THEN [bs |-> bs1, out |-> eff.out]
             ELSE BuildEach(bs1, Tail(orders), Tail(responses),
                            Append(built, eff.out.value))

\* The comprehension building every order even after one has failed, and
\* raising the first failure at the end.
RECURSIVE BuildEach_KeepGoing(_, _, _, _)
BuildEach_KeepGoing(bs, orders, responses, first) ==
    IF orders = <<>> THEN [bs |-> bs, out |-> first]
    ELSE LET eff == build(bs, Head(orders), Head(responses))
             bs1 == [bs EXCEPT ![Head(orders)] = eff.self]
         IN  BuildEach_KeepGoing(bs1, Tail(orders), Tail(responses),
                 IF first.exc # "" THEN first
                 ELSE IF eff.out.exc # "" THEN eff.out
                 ELSE Return(Append(first.value, eff.out.value)))

build_all_KeepGoing(bs, self, responses) ==
    BuildEach_KeepGoing(bs, self.orders, responses, Return(<<>>))

\* StrategyBuilder.build_all
build_all(bs, self, responses) == BuildEach(bs, self.orders, responses, <<>>)

(***************************************************************************)
(* CoveredCall (schwab_strategies.py), the strategy the facade's           *)
(* covered_call hands out.  A method's result is the strategy after the    *)
(* call, the OrderBuilder it created and added (if it got that far) and    *)
(* the outcome.                                                            *)
(***************************************************************************)
\* OrderBuilder(self.console): the console given, or a new one if rich is
\* there.
NewOrder(self, rich) == OrderBuilder(self.console \/ rich)

\* sell_call without the coverage check.
sell_call_Unchecked(self, call_symbol, n, rich) ==
    LET o == contracts(sell_to_open(NewOrder(self, rich), call_symbol).self, n)
    IN  IF o.out.exc # "" THEN [self |-> self, order |-> None, out |-> o.out]
        ELSE [self |-> self, order |-> Some(o.self), out |-> Return("self")]

\* CoveredCall.buy_stock: stock_quantity is assigned before the order is
\* assembled, so it keeps the new value when shares() raises.
buy_stock(self, quantity, rich) ==
    LET s1 == [self EXCEPT !.stock_quantity = quantity]
        o == shares(buy(NewOrder(self, rich), self.underlying).self, quantity)
    IN  IF o.out.exc # "" THEN [self |-> s1, order |-> None, out |-> o.out]
        ELSE [self |-> s1, order |-> Some(o.self), out |-> Return("self")]

\* CoveredCall.sell_call
sell_call(self, call_symbol, n, rich) ==
    IF n * 100 > self.stock_quantity
    THEN [self |-> self, order |-> None,
          out |-> Raise("ValueError", "Cannot sell " \o ToString(n) \o " calls - only have "
                                         \o ToString(self.stock_quantity) \o " shares")]
    ELSE LET o == contracts(sell_to_open(NewOrder(self, rich), call_symbol).self, n)
         IN  IF o.out.exc # "" THEN [self |-> self, order |-> None, out |-> o.out]
             ELSE [self |-> self, order |-> Some(o.self), out |-> Return("self")]

(***************************************************************************)
(* EZOrders, the facade                                                    *)
(***************************************************************************)
\* An amount of dollars is an integer in units of 10^-4, the finest unit a
\* formatted price has.
Dollar == 10 ^ 4

\* EZConfig.max_order_value default.
DefaultMaxOrderValue == 10000 * Dollar

EZConfig(confirm, ceiling) ==
    [default_time_in_force |-> "DAY",
     require_confirmation |-> confirm,
     max_order_value |-> ceiling,
     save_order_history |-> TRUE]

\* EZOrders.__init__: no history file yet.
EZOrders(config, rich, has_submit_func) ==
    [config |-> config, console |-> rich, client_submit_func |-> has_submit_func,
     order_history |-> <<>>, _enhanced_validate |-> FALSE, _get_preview |-> FALSE]

\* set_preview_function(f): the attribute _get_preview exists from then on.
set_preview_function(self) == [self EXCEPT !._get_preview = TRUE]

\* set_enhanced_validation(f): the attribute _enhanced_validate exists from
\* then on.
set_enhanced_validation(self) == [self EXCEPT !._enhanced_validate = TRUE]

(***************************************************************************)
(* The order-creating methods of the facade.  Each makes a new builder     *)
(* with the facade's console and calls builder methods on it; an exception *)
(* of a builder method leaves the facade method at once.  The facade       *)
(* methods named like builder methods carry the class name in front.       *)
(***************************************************************************)
\* Truthiness of an Optional number: None and 0 are falsy.
Given(number) == number # None /\ Val(number) # 0

\* `if limit: order.limit(limit) else: order.market()` after the calls eff.
Priced(eff, lim) ==
    IF eff.out.exc # "" THEN eff
    ELSE IF Given(lim) THEN limit(eff.self, Val(lim))
    ELSE market(eff.self)

\* The time-in-force call chosen by the string tif, after the calls eff.
InForce(eff, tif) ==
    IF eff.out.exc # "" THEN eff
    ELSE CASE tif = "GTC" -> gtc(eff.self)
           [] tif = "IOC" -> ioc(eff.self)
           [] tif = "FOK" -> fok(eff.self)
           [] OTHER -> day(eff.self)

\* `if self.config.require_confirmation: order.require_confirmation()`.
Confirmed(self, eff) ==
    IF eff.out.exc # "" THEN eff
    ELSE IF self.config.require_confirmation THEN require_confirmation(eff.self)
    ELSE eff

\* The call m(...) given as next, made when the calls eff have not raised.
AndThen(eff, next) == IF eff.out.exc # "" THEN eff ELSE next

\* EZOrders.buy(symbol, quantity, limit, stop_loss, time_in_force); a
\* stop_loss only prints a reminder.
EZOrders_buy(self, symbol, quantity, lim, time_in_force) ==
    Confirmed(self,
        InForce(Priced(shares(buy(OrderBuilder(self.console), symbol).self, quantity), lim),
                IF Truthy(time_in_force) THEN Val(time_in_force)
                ELSE self.config.default_time_in_force))

\* EZOrders.sell(symbol, quantity, limit, time_in_force)
EZOrders_sell(self, symbol, quantity, lim, time_in_force) ==
    Confirmed(self,
        InForce(Priced(shares(sell(OrderBuilder(self.console), symbol).self, quantity), lim),
                IF Truthy(time_in_force) THEN Val(time_in_force)
                ELSE self.config.default_time_in_force))

\* quick_buy(symbol, shares, limit_price) with no console argument: the order
\* is made, priced by `if limit_price`, set to DAY and built at once.
quick_buy(symbol, quantity, limit_price, rich) ==
    CHOOSE r \in {IF eff.out.exc # "" THEN eff.out
                  ELSE build("new" :> eff.self, "new", "y").out :
                  eff \in {InForce(Priced(shares(buy(OrderBuilder(rich), symbol).self,
                                                 quantity), limit_price), "DAY")}} : TRUE

\* quick_sell(symbol, shares, limit_price) with no console argument.
quick_sell(symbol, quantity, limit_price, rich) ==
    CHOOSE r \in {IF eff.out.exc # "" THEN eff.out
                  ELSE build("new" :> eff.self, "new", "y").out :
                  eff \in {InForce(Priced(shares(sell(OrderBuilder(rich), symbol).self,
                                                 quantity), limit_price), "DAY")}} : TRUE

\* EZOrders.stop_loss(symbol, quantity, stop_price, limit_price)
EZOrders_stop_loss(self, symbol, quantity, stop_price, limit_price) ==
    LET e == shares(sell(OrderBuilder(self.console), symbol).self, quantity)
        p == AndThen(e, IF Given(limit_price)
                        THEN stop_limit(e.self, stop_price, Val(limit_price))
                        ELSE stop(e.self, stop_price))
    IN  Confirmed(self, AndThen(p, gtc(p.self)))

\* EZOrders.trailing_stop_loss(symbol, quantity, trail_amount, trail_type)
EZOrders_trailing_stop_loss(self, symbol, quantity, trail_amount, trail_type) ==
    LET e == shares(sell(OrderBuilder(self.console), symbol).self, quantity)
    IN  Confirmed(self,
            AndThen(e, gtc(trailing_stop(e.self, trail_amount, trail_type, "BID").self)))

\* EZOrders.bracket_order(symbol, quantity, entry_price, profit_target,
\* stop_loss): the profit order, with the stop order as its OCO child, is
\* the triggered child of the main order.  profit_id and stop_id name the
\* two new child builders; others has their state.
EZOrders_bracket_order(self, profit_id, stop_id, symbol, quantity, entry_price, profit_target, stop_loss) ==
    LET p1 == shares(sell(OrderBuilder(self.console), symbol).self, quantity)
        p2 == AndThen(p1, limit(p1.self, profit_target))
        profit_order == AndThen(p2, gtc(p2.self))
        s1 == AndThen(profit_order,
                      shares(sell(OrderBuilder(self.console), symbol).self, quantity))
        s2 == AndThen(s1, stop(s1.self, stop_loss))
        stop_order == AndThen(s2, gtc(s2.self))
        oco_order == AndThen(stop_order, one_cancels_other(profit_order.self, stop_id))
        m1 == AndThen(oco_order,
                      shares(buy(OrderBuilder(self.console), symbol).self, quantity))
        m2 == AndThen(m1, limit(m1.self, entry_price))
        m3 == AndThen(m2, one_triggers_other(day(m2.self).self, profit_id))
        main_order == Confirmed(self, m3)
    IN  [self |-> main_order.self, out |-> main_order.out,
         others |-> (profit_id :> oco_order.self) @@ (stop_id :> stop_order.self)]

\* EZOrders.buy_call(symbol, contracts, limit)
EZOrders_buy_call(self, symbol, n, lim) ==
    LET p == Priced(contracts(buy_to_open(OrderBuilder(self.console), symbol).self, n), lim)
    IN  AndThen(p, day(p.self))

\* EZOrders.sell_call(symbol, contracts, limit)
EZOrders_sell_call(self, symbol, n, lim) ==
    LET p == Priced(contracts(sell_to_close(OrderBuilder(self.console), symbol).self, n), lim)
    IN  AndThen(p, day(p.self))

\* EZOrders.buy_put(symbol, contracts, limit)
EZOrders_buy_put(self, symbol, n, lim) ==
    LET p == Priced(contracts(buy_to_open(OrderBuilder(self.console), symbol).self, n), lim)
    IN  AndThen(p, day(p.self))

\* EZOrders.sell_put(symbol, contracts, limit)
EZOrders_sell_put(self, symbol, n, lim) ==
    LET p == Priced(contracts(sell_to_close(OrderBuilder(self.console), symbol).self, n), lim)
    IN  AndThen(p, day(p.self))

\* EZOrders.vertical_spread(long_symbol, short_symbol, contracts, net_price,
\* order_type): its first statement reads OrderAction, a name the facade's
\* module does not import, so the method raises NameError before it makes
\* a builder.
EZOrders_vertical_spread(self, long_symbol, short_symbol, n, net_price, order_type) ==
    Effect(OrderBuilder(self.console),
           Raise("NameError", "name 'OrderAction' is not defined"))

\* EZOrders.iron_condor_order(put_spread_long, put_spread_short,
\* call_spread_short, call_spread_long, contracts, net_credit): the argument
\* of its first with_leg call reads OrderAction and raises NameError.
EZOrders_iron_condor_order(self, put_spread_long, put_spread_short, call_spread_short, call_spread_long, n, credit) ==
    Effect(OrderBuilder(self.console),
           Raise("NameError", "name 'OrderAction' is not defined"))

\* float(s) of a price string of a payload: the value, in units of 10^-4, of
\* the formatted price that reads s.  The strings are those the formatter gives
\* for the prices of the runs.
float(s) ==
    LET p == CHOOSE q \in Prices : q > 0 /\ _format_price(q).value = s
    IN  decimal_price(p).coef * (Dollar \div (10 ^ decimal_price(p).digits))

\* total_value of _validate_order_value: quantity * price summed over the
\* legs whose instruction is one of those given.
RECURSIVE SumValue(_, _, _)
SumValue(legs, price, instructions) ==
    IF Len(legs) = 0 THEN 0
    ELSE (IF Head(legs).instruction \in instructions
          THEN Head(legs).quantity * price ELSE 0)
         + SumValue(Tail(legs), price, instructions)

\* EZOrders._validate_order_value: price times the quantity of the BUY and
\* BUY_TO_OPEN legs against config.max_order_value; a payload without a
\* price is not checked.
_validate_order_value(self, order_json) ==
    LET price == IF "price" \in DOMAIN order_json THEN float(order_json["price"]) ELSE 0
        legs == order_json.orderLegCollection
        total_value == SumValue(legs, price, {"BUY", "BUY_TO_OPEN"})
    IN  IF price = 0 THEN Return(None)
        ELSE IF total_value > self.config.max_order_value
        THEN Raise("ValidationError", "Order value exceeds safety limit")
        ELSE Return(None)

\* What client_submit_func does when called: it returns a response, with a
\* status, or None, or it raises.
ClientReplies == {"ok", "error", "none", "raise"}

response_of(reply) == IF reply = "none" THEN None ELSE Some([status |-> reply])

\* _save_to_history
_save_to_history(self, order_type, order_json, response) ==
    IF ~self.config.save_order_history THEN self
    ELSE [self EXCEPT !.order_history =
              Append(@, [type |-> order_type, order |-> order_json, response |-> response])]

\* submit_order handing the payload to client_submit_func before the value
\* check.
submit_order_SubmitFirst(bs, self, b, dry_run, validate_first, answer, valid, reply) ==
    LET built == build(bs, b, answer)
        bs1 == [bs EXCEPT ![b] = built.self]
        order_json == built.out.value
        nothing == [bs |-> bs1, ez |-> self, calls |-> <<>>, out |-> Return(None)]
    IN  IF built.out.exc # "" THEN nothing
        ELSE IF validate_first /\ self._enhanced_validate /\ ~valid THEN nothing
        ELSE IF dry_run THEN nothing
        ELSE IF self.client_submit_func
        THEN IF reply = "raise" \/ _validate_order_value(self, order_json).exc # ""
             THEN [nothing EXCEPT !.calls = <<order_json>>]
             ELSE [bs |-> bs1,
                   ez |-> _save_to_history(self, "order", order_json, response_of(reply)),
                   calls |-> <<order_json>>,
                   out |-> Return(response_of(reply))]
        ELSE IF _validate_order_value(self, order_json).exc # "" THEN nothing
        ELSE [nothing EXCEPT !.out = Return(Some(order_json))]

\* EZOrders.submit_order(order, dry_run, validate_first).  answer is what
\* the user says if build() prompts, valid what _enhanced_validate reports,
\* reply what client_submit_func does.  The result has the builders and
\* the facade after the call, the payloads client_submit_func was called
\* with, and the outcome; every exception is caught and gives None.
submit_order(bs, self, b, dry_run, validate_first, answer, valid, reply) ==
    LET built == build(bs, b, answer)
        bs1 == [bs EXCEPT ![b] = built.self]
        order_json == built.out.value
        nothing == [bs |-> bs1, ez |-> self, calls |-> <<>>, out |-> Return(None)]
    IN  IF built.out.exc # "" THEN nothing
        ELSE IF validate_first /\ self._enhanced_validate /\ ~valid THEN nothing
        ELSE IF dry_run THEN nothing
        ELSE IF _validate_order_value(self, order_json).exc # "" THEN nothing
        ELSE IF self.client_submit_func
        THEN IF reply = "raise"
             THEN [nothing EXCEPT !.calls = <<order_json>>]
             ELSE [bs |-> bs1,
                   ez |-> _save_to_history(self, "order", order_json, response_of(reply)),
                   calls |-> <<order_json>>,
                   out |-> Return(response_of(reply))]
        ELSE [nothing EXCEPT !.out = Return(Some(order_json))]

(***************************************************************************)
(* The state machine: one action per public operation, applied to one of   *)
(* the builder objects of the run.                                         *)
(***************************************************************************)
Builders == {"A", "B", "C"}

NoCall ==
    [op |-> "", b |-> "", args |-> <<>>, exc |-> "", msg |-> "", value |-> None,
     again |-> FALSE]

\* The call op(args) on builder b had effect eff: b's attributes are
\* replaced and the outcome is recorded.  `again` tells that the call
\* directly follows a call of the same method on the same builder that
\* returned.
Call(op, b, args, eff) ==
    /\ builders' = [builders EXCEPT ![b] = eff.self]
    /\ last' = [op |-> op, b |-> b, args |-> args,
                exc |-> eff.out.exc, msg |-> eff.out.msg, value |-> eff.out.value,
                again |-> (last.op = op /\ last.b = b /\ last.exc = "")]
    /\ UNCHANGED <<RICH_AVAILABLE, raw, templates, strategy, ez, client, log>>

Reset(b) == Call("reset", b, <<>>, Effect(reset(builders[b]), Return("self")))

Buy(b, symbol) == Call("buy", b, <<symbol>>, buy(builders[b], symbol))
Sell(b, symbol) == Call("sell", b, <<symbol>>, sell(builders[b], symbol))
SellShort(b, symbol) == Call("sell_short", b, <<symbol>>, sell_short(builders[b], symbol))
BuyToCover(b, symbol) == Call("buy_to_cover", b, <<symbol>>, buy_to_cover(builders[b], symbol))
BuyToOpen(b, symbol) == Call("buy_to_open", b, <<symbol>>, buy_to_open(builders[b], symbol))
SellToClose(b, symbol) == Call("sell_to_close", b, <<symbol>>, sell_to_close(builders[b], symbol))
SellToOpen(b, symbol) == Call("sell_to_open", b, <<symbol>>, sell_to_open(builders[b], symbol))
BuyToClose(b, symbol) == Call("buy_to_close", b, <<symbol>>, buy_to_close(builders[b], symbol))

AddLeg(b, action, symbol, asset_type) == Call("add_leg", b, <<action, symbol, asset_type>>, add_leg(builders[b], action, symbol, asset_type))

WithLeg(b, action, symbol, quantity, asset_type) == Call("with_leg", b, <<action, symbol, quantity, asset_type>>, with_leg(builders[b], action, symbol, quantity, asset_type))

Shares(b, quantity) == Call("shares", b, <<quantity>>, shares(builders[b], quantity))
Contracts(b, quantity) == Call("contracts", b, <<quantity>>, contracts(builders[b], quantity))

Market(b) == Call("market", b, <<>>, market(builders[b]))
Limit(b, price) == Call("limit", b, <<price>>, limit(builders[b], price))
Stop(b, stop_price) == Call("stop", b, <<stop_price>>, stop(builders[b], stop_price))
StopLimit(b, stop_price, limit_price) == Call("stop_limit", b, <<stop_price, limit_price>>, stop_limit(builders[b], stop_price, limit_price))
TrailingStop(b, offset, offset_type, basis) == Call("trailing_stop", b, <<offset, offset_type, basis>>, trailing_stop(builders[b], offset, offset_type, basis))
TrailingStopLimit(b, offset, limit_price, offset_type, basis) == Call("trailing_stop_limit", b, <<offset, limit_price, offset_type, basis>>, trailing_stop_limit(builders[b], offset, limit_price, offset_type, basis))
NetDebit(b, max_debit) == Call("net_debit", b, <<max_debit>>, net_debit(builders[b], max_debit))
NetCredit(b, min_credit) == Call("net_credit", b, <<min_credit>>, net_credit(builders[b], min_credit))
NetZero(b) == Call("net_zero", b, <<>>, net_zero(builders[b]))

Day(b) == Call("day", b, <<>>, day(builders[b]))
Gtc(b) == Call("gtc", b, <<>>, gtc(builders[b]))
Ioc(b) == Call("ioc", b, <<>>, ioc(builders[b]))
Fok(b) == Call("fok", b, <<>>, fok(builders[b]))

VerticalSpread(b) == Call("vertical_spread", b, <<>>, vertical_spread(builders[b]))
IronCondorStrategy(b) == Call("iron_condor_strategy", b, <<>>, iron_condor_strategy(builders[b]))
StraddleStrategy(b) == Call("straddle_strategy", b, <<>>, straddle_strategy(builders[b]))
StrangleStrategy(b) == Call("strangle_strategy", b, <<>>, strangle_strategy(builders[b]))
ButterflyStrategy(b) == Call("butterfly_strategy", b, <<>>, butterfly_strategy(builders[b]))
CustomStrategy(b) == Call("custom_strategy", b, <<>>, custom_strategy(builders[b]))

OneTriggersOther(b, triggered_order) == Call("one_triggers_other", b, <<triggered_order>>, one_triggers_other(builders[b], triggered_order))
OneCancelsOther(b, other_order) == Call("one_cancels_other", b, <<other_order>>, one_cancels_other(builders[b], other_order))

RequireConfirmation(b) == Call("require_confirmation", b, <<>>, require_confirmation(builders[b]))

Validate(b) == Call("validate", b, <<>>, validate(builders[b]))

\* build() with the answer the user would give to the confirmation prompt.
Build(b, response) == Call("build", b, <<response>>, build(builders, b, response))

\* save_template(name) on builder b: the file of that name is (re)written.
SaveTemplate(b, name) ==
    /\ templates' = [templates EXCEPT ![name] = Some(template(builders[b]))]
    /\ last' = [op |-> "save_template", b |-> b, args |-> <<name>>,
                exc |-> "", msg |-> "", value |-> "self",
                again |-> (last.op = "save_template" /\ last.b = b /\ last.exc = "")]
    /\ UNCHANGED <<builders, RICH_AVAILABLE, raw, strategy, ez, client, log>>

\* b = OrderBuilder.load_template(name): b names the new builder.  The name
\* b is one no other builder holds as a child, so that the object it named
\* before is not reachable any more.
LoadTemplate(b, name) ==
    /\ \A c \in Builders : b \notin Children(builders, c)
    /\ LET eff == load_template(templates, name, RICH_AVAILABLE)
       IN  /\ builders' = IF eff.out.exc = "" THEN [builders EXCEPT ![b] = eff.self]
                                               ELSE builders
           /\ last' = [op |-> "load_template", b |-> b, args |-> <<name>>,
                       exc |-> eff.out.exc, msg |-> eff.out.msg, value |-> eff.out.value,
                       again |-> FALSE]
    /\ UNCHANGED <<RICH_AVAILABLE, raw, templates, strategy, ez, client, log>>

\* strategy.add_order(b)
AddOrder(b) ==
    /\ strategy' = add_order(strategy, b)
    /\ last' = [op |-> "add_order", b |-> b, args |-> <<b>>,
                exc |-> "", msg |-> "", value |-> "self", again |-> FALSE]
    /\ UNCHANGED <<builders, RICH_AVAILABLE, raw, templates, ez, client, log>>

\* strategy.build_all(), the user answering responses[i] if the build of
\* the i-th order prompts.
BuildAll(responses) ==
    /\ LET r == build_all(builders, strategy, responses)
       IN  /\ builders' = r.bs
           /\ last' = [op |-> "build_all", b |-> "", args |-> <<responses>>,
                       exc |-> r.out.exc, msg |-> r.out.msg, value |-> r.out.value,
                       again |-> FALSE]
    /\ UNCHANGED <<RICH_AVAILABLE, raw, templates, strategy, ez, client, log>>

\* A call on the strategy that may create an OrderBuilder and add it: the
\* new object takes a builder id that names no order of the strategy.
StrategyCall(op, args, r) ==
    /\ Len(strategy.orders) < Cardinality(Builders)
    /\ LET id == CHOOSE b \in Builders :
                     \A i \in 1..Len(strategy.orders) : strategy.orders[i] # b
       IN  IF r.order = None
           THEN /\ strategy' = r.self
                /\ builders' = builders
                /\ last' = [op |-> op, b |-> "", args |-> args, exc |-> r.out.exc,
                            msg |-> r.out.msg, value |-> r.out.value, again |-> FALSE]
           ELSE /\ strategy' = add_order(r.self, id)
                /\ builders' = [builders EXCEPT ![id] = Val(r.order)]
                /\ last' = [op |-> op, b |-> id, args |-> args, exc |-> r.out.exc,
                            msg |-> r.out.msg, value |-> r.out.value, again |-> FALSE]
    /\ UNCHANGED <<RICH_AVAILABLE, raw, templates, ez, client, log>>

BuyStock(quantity) ==
    StrategyCall("buy_stock", <<quantity>>, buy_stock(strategy, quantity, RICH_AVAILABLE))

SellCall(call_symbol, n) ==
    StrategyCall("sell_call", <<call_symbol, n>>,
                 sell_call(strategy, call_symbol, n, RICH_AVAILABLE))

\* CoveredCall.at_limit(price): limit(price) on the most recent order.
AtLimit(price) ==
    /\ strategy.orders # <<>>
    /\ Limit(strategy.orders[Len(strategy.orders)], price)

\* The log entries of calls of client_submit_func with the payloads given.
Submitted(calls) == [i \in 1..Len(calls) |-> [fn |-> "submit", order |-> calls[i]]]

\* EZOrders._calculate_total_fees: the sum of the fee values of the preview,
\* in cents, here over the values of all fee legs in one sequence.
RECURSIVE _calculate_total_fees(_)
_calculate_total_fees(fee_values) ==
    IF Len(fee_values) = 0 THEN 0
    ELSE Head(fee_values) + _calculate_total_fees(Tail(fee_values))

\* What the preview function does when called: it raises, returns None, or
\* returns a dict with a status, the rejects and warns of its
\* orderValidationResult, the projected commission and the fee values.
Preview(kind, status, rejects, commission, fee_values) ==
    [kind |-> kind, status |-> status, rejects |-> rejects,
     commission |-> commission, fee_values |-> fee_values]

\* smart_submit without the return after a preview with rejects.
smart_submit_IgnoreRejects(bs, self, b, max_cost, require_preview, answer, answer2, preview, reply) ==
    LET built == build(bs, b, answer)
        bs1 == [bs EXCEPT ![b] = built.self]
        order_json == built.out.value
        previewed == <<[fn |-> "preview", order |-> order_json]>>
        total_cost == preview.commission + _calculate_total_fees(preview.fee_values)
        nothing == [bs |-> bs1, ez |-> self, log |-> <<>>, out |-> Return(None)]
        submitted ==
            CHOOSE r \in {[bs |-> sub.bs, ez |-> sub.ez,
                           log |-> Submitted(sub.calls), out |-> sub.out] :
                          sub \in {submit_order(bs1, self, b, FALSE, FALSE,
                                                answer2, TRUE, reply)}} : TRUE
    IN  IF built.out.exc # "" THEN nothing
        ELSE IF require_preview /\ self._get_preview
        THEN IF preview.kind # "dict" THEN [nothing EXCEPT !.log = previewed]
             ELSE IF preview.status = "error" THEN [nothing EXCEPT !.log = previewed]
             ELSE IF max_cost # None /\ Val(max_cost) # 0 /\ total_cost > Val(max_cost)
             THEN [nothing EXCEPT !.log = previewed]
             ELSE [submitted EXCEPT !.log = previewed \o @]
        ELSE submitted

\* EZOrders.smart_submit(order, max_cost, require_preview).  answer and
\* answer2 are what the user says if the two build() calls prompt, preview
\* what the preview function does, reply what client_submit_func does.
\* The result has the builders and the facade after the call, the calls of
\* the preview and submission functions in order, and the outcome; every
\* exception is caught and gives None.  submitted is the outcome of the
\* submit_order call on the builders as the first build() left them.
smart_submit(bs, self, b, max_cost, require_preview, answer, answer2, preview, reply) ==
    LET built == build(bs, b, answer)
        bs1 == [bs EXCEPT ![b] = built.self]
        order_json == built.out.value
        previewed == <<[fn |-> "preview", order |-> order_json]>>
        total_cost == preview.commission + _calculate_total_fees(preview.fee_values)
        nothing == [bs |-> bs1, ez |-> self, log |-> <<>>, out |-> Return(None)]
        submitted ==
            CHOOSE r \in {[bs |-> sub.bs, ez |-> sub.ez,
                           log |-> Submitted(sub.calls), out |-> sub.out] :
                          sub \in {submit_order(bs1, self, b, FALSE, FALSE,
                                                answer2, TRUE, reply)}} : TRUE
    IN  IF built.out.exc # "" THEN nothing
        ELSE IF require_preview /\ self._get_preview
        THEN IF preview.kind # "dict" THEN [nothing EXCEPT !.log = previewed]
             ELSE IF preview.status = "error" THEN [nothing EXCEPT !.log = previewed]
             ELSE IF preview.rejects # <<>> THEN [nothing EXCEPT !.log = previewed]
             ELSE IF max_cost # None /\ Val(max_cost) # 0 /\ total_cost > Val(max_cost)
             THEN [nothing EXCEPT !.log = previewed]
             ELSE [submitted EXCEPT !.log = previewed \o @]
        ELSE submitted

\* The payloads of the submit entries of a log, in order.
RECURSIVE SubmitCalls(_)
SubmitCalls(entries) ==
    IF Len(entries) = 0 THEN <<>>
    ELSE (IF Head(entries).fn = "submit" THEN <<Head(entries).order>> ELSE <<>>)
         \o SubmitCalls(Tail(entries))

\* response is None or response.get('status') == 'error', for the Optional
\* a submit_order call returned.
Failed(response) ==
    \/ response = None
    \/ "status" \in DOMAIN Val(response) /\ Val(response).status = "error"

\* The loop of batch_submit over the orders left, replies being what
\* client_submit_func does for each of them.  acc holds the responses and
\* the payloads client_submit_func was called with so far.
RECURSIVE SubmitEach(_, _, _, _, _, _)
SubmitEach(bs, self, orders, stop_on_error, replies, acc) ==
    IF Len(orders) = 0
    THEN [bs |-> bs, ez |-> self, calls |-> acc.calls, out |-> Return(acc.responses)]
    ELSE CHOOSE r \in
           {LET acc1 == [responses |-> Append(acc.responses, sub.out.value),
                         calls |-> acc.calls \o sub.calls]
            IN  IF Failed(sub.out.value) /\ stop_on_error
                THEN [bs |-> sub.bs, ez |-> sub.ez, calls |-> acc1.calls,
                      out |-> Return(acc1.responses)]
                ELSE SubmitEach(sub.bs, sub.ez, Tail(orders), stop_on_error,
                                Tail(replies), acc1) :
            sub \in {submit_order(bs, self, Head(orders), FALSE, TRUE, "y", TRUE,
                                  Head(replies))}} : TRUE

\* The loop of batch_submit going on after a failed order whatever
\* stop_on_error says.
RECURSIVE SubmitEach_NeverStop(_, _, _, _, _, _)
SubmitEach_NeverStop(bs, self, orders, stop_on_error, replies, acc) ==
    IF Len(orders) = 0
    THEN [bs |-> bs, ez |-> self, calls |-> acc.calls, out |-> Return(acc.responses)]
    ELSE CHOOSE r \in
           {SubmitEach_NeverStop(sub.bs, sub.ez, Tail(orders), stop_on_error, Tail(replies),
                                 [responses |-> Append(acc.responses, sub.out.value),
                                  calls |-> acc.calls \o sub.calls]) :
            sub \in {submit_order(bs, self, Head(orders), FALSE, TRUE, "y", TRUE,
                                  Head(replies))}} : TRUE

batch_submit_NeverStop(bs, self, orders, stop_on_error, replies) ==
    SubmitEach_NeverStop(bs, self, orders, stop_on_error, replies,
                         [responses |-> <<>>, calls |-> <<>>])

\* EZOrders.batch_submit(orders, pause_between, stop_on_error): the list of
\* what submit_order returned for each order submitted.  The pause changes
\* no state.
batch_submit(bs, self, orders, stop_on_error, replies) ==
    SubmitEach(bs, self, orders, stop_on_error, replies,
               [responses |-> <<>>, calls |-> <<>>])

\* ez.batch_submit(orders, stop_on_error=stop_on_error)
BatchSubmit(orders, stop_on_error, replies) ==
    /\ \E r \in {batch_submit(builders, ez, orders, stop_on_error, replies)} :
           /\ builders' = r.bs
           /\ ez' = r.ez
           /\ client' = client \o r.calls
           /\ log' = log \o Submitted(r.calls)
           /\ last' = [op |-> "batch_submit", b |-> "",
                       args |-> <<orders, stop_on_error, replies>>,
                       exc |-> r.out.exc, msg |-> r.out.msg, value |-> r.out.value,
                       again |-> FALSE]
    /\ UNCHANGED <<RICH_AVAILABLE, raw, templates, strategy>>

\* The loop of submit_strategy over the n payloads build_all returned: each
\* turn calls submit_order on OrderBuilder().reset(), a new builder without
\* legs, and keeps the response when it is truthy.
RECURSIVE SubmitFresh(_, _, _, _, _)
SubmitFresh(self, n, replies, rich, acc) ==
    IF n = 0
    THEN [ez |-> self, calls |-> acc.calls, out |-> Return(Some(acc.responses))]
    ELSE CHOOSE r \in
           {SubmitFresh(sub.ez, n - 1, Tail(replies), rich,
                        [responses |-> IF sub.out.value # None
                                       THEN Append(acc.responses, Val(sub.out.value))
                                       ELSE acc.responses,
                         calls |-> acc.calls \o sub.calls]) :
            sub \in {submit_order("new" :> reset(OrderBuilder(rich)), self, "new",
                                  FALSE, TRUE, "y", TRUE, Head(replies))}} : TRUE

\* EZOrders.submit_strategy(strategy, dry_run).  responses[i] is the user's
\* answer should the i-th build of build_all prompt, replies[i] what
\* client_submit_func does at its i-th call.  Every exception is caught and
\* gives None.
submit_strategy(bs, self, strat, dry_run, responses, replies, rich) ==
    LET built == build_all(bs, strat, responses)
    IN  IF built.out.exc # "" \/ dry_run
        THEN [bs |-> built.bs, ez |-> self, calls |-> <<>>, out |-> Return(None)]
        ELSE CHOOSE r \in
               {[bs |-> built.bs, ez |-> sent.ez, calls |-> sent.calls, out |-> sent.out] :
                sent \in {SubmitFresh(self, Len(built.out.value), replies, rich,
                                      [responses |-> <<>>, calls |-> <<>>])}} : TRUE

\* ez.submit_strategy(strategy, dry_run)
SubmitStrategy(dry_run, responses, replies) ==
    /\ \E r \in {submit_strategy(builders, ez, strategy, dry_run, responses, replies,
                                  RICH_AVAILABLE)} :
           /\ builders' = r.bs
           /\ ez' = r.ez
           /\ client' = client \o r.calls
           /\ log' = log \o Submitted(r.calls)
           /\ last' = [op |-> "submit_strategy", b |-> "",
                       args |-> <<dry_run, responses, replies>>,
                       exc |-> r.out.exc, msg |-> r.out.msg, value |-> r.out.value,
                       again |-> FALSE]
    /\ UNCHANGED <<RICH_AVAILABLE, raw, templates, strategy>>

\* b = ez.<op>(args), eff being what the facade method does: b names the
\* builder returned and others, by their ids, the child builders made with
\* it.  The names are ones no other builder holds as a child.  When the
\* method raises no name is bound.
Create(op, b, args, eff, others) ==
    /\ \A c \in Builders \ ({b} \cup DOMAIN others) :
          Children(builders, c) \cap ({b} \cup DOMAIN others) = {}
    /\ builders' = IF eff.out.exc # "" THEN builders
                   ELSE [x \in Builders |->
                           IF x = b THEN eff.self
                           ELSE IF x \in DOMAIN others THEN others[x]
                           ELSE builders[x]]
    /\ last' = [op |-> op, b |-> b, args |-> args,
                exc |-> eff.out.exc, msg |-> eff.out.msg,
                value |-> IF eff.out.exc # "" THEN eff.out.value ELSE "order",
                again |-> FALSE]
    /\ UNCHANGED <<RICH_AVAILABLE, raw, templates, strategy, ez, client, log>>

\* The empty set of child builders.
NoOthers == [x \in {} |-> x]

\* A call of one of the module's utility functions: the builder it makes is
\* dropped, the payload (or the failure) is all that is left.
Quick(op, args, out) ==
    /\ last' = [op |-> op, b |-> "", args |-> args,
                exc |-> out.exc, msg |-> out.msg, value |-> out.value, again |-> FALSE]
    /\ UNCHANGED <<builders, RICH_AVAILABLE, raw, templates, strategy, ez, client, log>>

QuickBuy(symbol, quantity, limit_price) ==
    Quick("quick_buy", <<symbol, quantity, limit_price>>,
          quick_buy(symbol, quantity, limit_price, RICH_AVAILABLE))

QuickSell(symbol, quantity, limit_price) ==
    Quick("quick_sell", <<symbol, quantity, limit_price>>,
          quick_sell(symbol, quantity, limit_price, RICH_AVAILABLE))

\* ez.set_preview_function(f)
SetPreviewFunction ==
    /\ ez' = set_preview_function(ez)
    /\ last' = [op |-> "set_preview_function", b |-> "", args |-> <<>>,
                exc |-> "", msg |-> "", value |-> None, again |-> FALSE]
    /\ UNCHANGED <<builders, RICH_AVAILABLE, raw, templates, strategy, client, log>>

\* ez.smart_submit(b, max_cost, require_preview)
SmartSubmit(b, max_cost, require_preview, answer, answer2, preview, reply) ==
    /\ \E r \in {smart_submit(builders, ez, b, max_cost, require_preview,
                                answer, answer2, preview, reply)} :
           /\ builders' = r.bs
           /\ ez' = r.ez
           /\ client' = client \o SubmitCalls(r.log)
           /\ log' = log \o r.log
           /\ last' = [op |-> "smart_submit", b |-> b,
                       args |-> <<max_cost, require_preview, answer, answer2, preview, reply>>,
                       exc |-> r.out.exc, msg |-> r.out.msg, value |-> r.out.value,
                       again |-> FALSE]
    /\ UNCHANGED <<RICH_AVAILABLE, raw, templates, strategy>>

\* ez.set_enhanced_validation(f)
SetEnhancedValidation ==
    /\ ez' = set_enhanced_validation(ez)
    /\ last' = [op |-> "set_enhanced_validation", b |-> "", args |-> <<>>,
                exc |-> "", msg |-> "", value |-> None, again |-> FALSE]
    /\ UNCHANGED <<builders, RICH_AVAILABLE, raw, templates, strategy, client, log>>

\* ez.submit_order(b, dry_run, validate_first)
SubmitOrder(b, dry_run, validate_first, answer, valid, reply) ==
    /\ LET r == submit_order(builders, ez, b, dry_run, validate_first, answer, valid, reply)
       IN  /\ builders' = r.bs
           /\ ez' = r.ez
           /\ client' = client \o r.calls
           /\ log' = log \o Submitted(r.calls)
           /\ last' = [op |-> "submit_order", b |-> b,
                       args |-> <<dry_run, validate_first, answer, valid, reply>>,
                       exc |-> r.out.exc, msg |-> r.out.msg, value |-> r.out.value,
                       again |-> FALSE]
    /\ UNCHANGED <<RICH_AVAILABLE, raw, templates, strategy>>

\* A direct call of the price formatter on the raw price of the run.
FormatPrice ==
    /\ last.op = ""
    /\ last' = [op |-> "_format_price", b |-> "", args |-> <<raw>>,
                exc |-> _format_price(raw).exc, msg |-> _format_price(raw).msg,
                value |-> _format_price(raw).value, again |-> FALSE]
    /\ UNCHANGED <<builders, RICH_AVAILABLE, raw, templates, strategy, ez, client, log>>

(***************************************************************************)
(* Bounds and inputs of the runs                                           *)
(***************************************************************************)
MaxLegs == 2         \* legs are added only while a builder has fewer
MaxChildren == 1     \* children are attached only while a builder has fewer
MaxAttached == 2     \* in SpecChildren, children are attached only while A has fewer
MaxOrders == 2       \* orders are added to a strategy only while it has fewer
MaxBatch == 2        \* the longest list of orders given to batch_submit
MaxCalls == 2        \* smart_submit is called only while the log has fewer entries
MaxSubmitted == 1    \* submit_order is called only while client_submit_func has had fewer calls
MaxWarnings == 2     \* a call that would append a warning beyond this is not made
FormatBand == 1500   \* raw prices up to this far from 0 and from 1.0 are formatted

Symbols == {"aapl"}
Quantities == {0 - 1, 0, 2}
Offsets == {0 - Scale, 5 * Scale}       \* -1.0, 5.0
OffsetTypes == {"VALUE", "PERCENT"}
Responses == {"y", "n"}

\* Raw prices for the formatter: around 0 (negative, zero, below one tick),
\* around 1.0 where the number of kept digits changes, and the examples
\* 0.12345, 1.005 and 150.567.
FormatInputs ==
    ((0 - 5)..FormatBand) \cup ((Scale - FormatBand)..(Scale + FormatBand))
        \cup {12345, Scale + 500, GoodPrice}

\* The call leaves the receiver's warnings within the bound.
WithinWarnings(eff) == Len(eff.self.warnings) <= MaxWarnings

CanAddLeg(b) == Len(builders[b].legs) < MaxLegs
CanAttach(b) == Len(builders[b].child_orders) < MaxChildren

\* The objects around the builders: no template file, an empty strategy,
\* a facade with the default configuration and no submission function.
InitAround ==
    /\ templates = [n \in TemplateNames |-> None]
    /\ strategy = StrategyBuilder("aapl", RICH_AVAILABLE)
    /\ ez = EZOrders(EZConfig(TRUE, DefaultMaxOrderValue), RICH_AVAILABLE, FALSE)
    /\ client = <<>>
    /\ log = <<>>

Init ==
    /\ RICH_AVAILABLE \in BOOLEAN
    /\ builders = [b \in Builders |-> OrderBuilder(RICH_AVAILABLE)]
    /\ last = NoCall
    /\ raw = 0
    /\ InitAround

\* The same without the rich console.
InitPlain == Init /\ RICH_AVAILABLE = FALSE

InitFormat ==
    /\ RICH_AVAILABLE = FALSE
    /\ builders = [b \in Builders |-> OrderBuilder(RICH_AVAILABLE)]
    /\ last = NoCall
    /\ raw \in FormatInputs
    /\ InitAround

(***************************************************************************)
(* Spec: order trees.  A is the order that is built, from complete option  *)
(* legs; B is an order assembled step by step.  A takes A or B as a        *)
(* conditional child, so that A can end up its own child.                  *)
(***************************************************************************)
Next ==
    \/ \E sym \in Symbols : CanAddLeg("A") /\ WithLeg("A", "SELL_TO_OPEN", sym, 2, "OPTION")
    \/ \E sym \in Symbols : CanAddLeg("B") /\ Buy("B", sym)
    \/ Shares("B", 2)
    \/ Limit("B", 0)
    \/ \E c \in {"A", "B"} : CanAttach("A") /\ OneTriggersOther("A", c)
    \/ \E c \in {"A", "B"} : CanAttach("A") /\ OneCancelsOther("A", c)
    \/ RequireConfirmation("A")
    \/ WithinWarnings(validate(builders["A"])) /\ Validate("A")
    \/ \E r \in Responses : WithinWarnings(build(builders, "A", r)) /\ Build("A", r)

Spec == Init /\ [][Next]_vars

(***************************************************************************)
(* SpecLegs: one builder, its legs and quantities, with some pricing,      *)
(* time in force and a child around them.                                  *)
(***************************************************************************)
NextLegs ==
    \/ \E sym \in Symbols : CanAddLeg("A") /\ Buy("A", sym)
    \/ \E sym \in Symbols : CanAddLeg("A") /\ SellToOpen("A", sym)
    \/ \E sym \in Symbols, q \in Quantities : CanAddLeg("A") /\ WithLeg("A", "BUY_TO_OPEN", sym, q, "OPTION")
    \/ \E q \in Quantities : Shares("A", q)
    \/ \E q \in Quantities : Contracts("A", q)
    \/ Market("A")
    \/ Limit("A", GoodPrice)
    \/ Gtc("A")
    \/ VerticalSpread("A")
    \/ CanAttach("A") /\ OneCancelsOther("A", "B")
    \/ WithinWarnings(validate(builders["A"])) /\ Validate("A")
    \/ WithinWarnings(build(builders, "A", "y")) /\ Build("A", "y")

SpecLegs == InitPlain /\ [][NextLegs]_vars

(***************************************************************************)
(* SpecPricing: one builder with a leg, and every pricing selector.        *)
(***************************************************************************)
NextPricing ==
    \/ \E sym \in Symbols : CanAddLeg("A") /\ Buy("A", sym)
    \/ Shares("A", 2)
    \/ Market("A")
    \/ \E p \in Prices : Limit("A", p)
    \/ \E p \in Prices : Stop("A", p)
    \/ \E sp \in Prices, lp \in Prices : StopLimit("A", sp, lp)
    \/ \E o \in Offsets, t \in OffsetTypes : TrailingStop("A", o, t, "BID")
    \/ \E o \in Offsets, p \in Prices, t \in OffsetTypes : TrailingStopLimit("A", o, p, t, "BID")
    \/ \E p \in Prices : NetDebit("A", p)
    \/ \E p \in Prices : NetCredit("A", p)
    \/ NetZero("A")
    \/ Validate("A")
    \/ Build("A", "y")

SpecPricing == InitPlain /\ [][NextPricing]_vars

(***************************************************************************)
(* SpecFormat: the price formatter applied to one raw price.               *)
(***************************************************************************)
NextFormat == FormatPrice

SpecFormat == InitFormat /\ [][NextFormat]_vars

(***************************************************************************)
(* SpecPayload: one builder whose legs come from an action selector, from  *)
(* add_leg and from with_leg, on two symbols, with a strategy tag or none. *)
(***************************************************************************)
LegSymbols == {"aapl", "xyz"}

NextPayload ==
    \/ \E sym \in LegSymbols : CanAddLeg("A") /\ Buy("A", sym)
    \/ CanAddLeg("A") /\ AddLeg("A", "SELL_TO_OPEN", "aapl", "OPTION")
    \/ \E sym \in LegSymbols : CanAddLeg("A") /\ WithLeg("A", "BUY_TO_OPEN", sym, 2, "OPTION")
    \/ Contracts("A", 3)
    \/ NetDebit("A", 3 * Scale)
    \/ VerticalSpread("A")
    \/ CustomStrategy("A")
    \/ Reset("A")
    \/ WithinWarnings(build(builders, "A", "y")) /\ Build("A", "y")

SpecPayload == InitPlain /\ [][NextPayload]_vars

(***************************************************************************)
(* SpecChildren: A takes B and C as conditional children, in either order  *)
(* and under either mode; B may itself have C as a child.                  *)
(***************************************************************************)
NextChildren ==
    \/ CanAddLeg("A") /\ builders["A"].legs = <<>> /\ Buy("A", "aapl")
    \/ Shares("A", 2)
    \/ builders["B"].legs = <<>> /\ WithLeg("B", "SELL", "aapl", 2, "EQUITY")
    \/ builders["C"].legs = <<>> /\ WithLeg("C", "SELL_SHORT", "xyz", 2, "EQUITY")
    \/ \E c \in {"B", "C"} :
          Len(builders["A"].child_orders) < MaxAttached /\ OneTriggersOther("A", c)
    \/ \E c \in {"B", "C"} :
          Len(builders["A"].child_orders) < MaxAttached /\ OneCancelsOther("A", c)
    \/ builders["B"].child_orders = <<>> /\ OneCancelsOther("B", "C")
    \/ Reset("A")
    \/ Build("A", "y")

SpecChildren == InitPlain /\ [][NextChildren]_vars

(***************************************************************************)
(* SpecModes: composition mode and children under every operation that     *)
(* writes them: construction, composition calls, reset, template load.     *)
(***************************************************************************)
NextModes ==
    \/ builders["A"].legs = <<>> /\ Buy("A", "aapl")
    \/ Shares("A", 2)
    \/ Limit("A", GoodPrice)
    \/ CanAttach("A") /\ OneTriggersOther("A", "B")
    \/ CanAttach("A") /\ OneCancelsOther("A", "B")
    \/ CanAttach("B") /\ OneCancelsOther("B", "C")
    \/ \E b \in {"A", "B"} : Reset(b)
    \/ \E n \in TemplateNames : SaveTemplate("A", n)
    \/ \E b \in Builders, n \in TemplateNames : LoadTemplate(b, n)
    \/ Build("A", "y")

SpecModes == InitPlain /\ [][NextModes]_vars

(***************************************************************************)
(* SpecWarnings: quantities above and below the advisory thresholds, set   *)
(* by shares, contracts and with_leg, before and after the pricing call.   *)
(***************************************************************************)
NextWarnings ==
    \/ CanAddLeg("A") /\ Buy("A", "aapl")
    \/ CanAddLeg("A") /\ BuyToOpen("A", "aapl")
    \/ CanAddLeg("A") /\ WithLeg("A", "BUY", "aapl", 2000, "EQUITY")
    \/ \E q \in {600, 2000} :
          WithinWarnings(shares(builders["A"], q)) /\ Shares("A", q)
    \/ WithinWarnings(contracts(builders["A"], 11)) /\ Contracts("A", 11)
    \/ WithinWarnings(market(builders["A"])) /\ Market("A")
    \/ Limit("A", GoodPrice)
    \/ WithinWarnings(build(builders, "A", "y")) /\ Build("A", "y")

SpecWarnings == InitPlain /\ [][NextWarnings]_vars

(***************************************************************************)
(* SpecStrategy: a StrategyBuilder over the builders A (one equity leg,    *)
(* may require confirmation) and B (option legs, warned at each build).    *)
(***************************************************************************)
AllWithinWarnings(bs) == \A b \in Builders : Len(bs[b].warnings) <= MaxWarnings

NextStrategy ==
    \/ builders["A"].legs = <<>> /\ Buy("A", "aapl")
    \/ Shares("A", 2)
    \/ RequireConfirmation("A")
    \/ CanAddLeg("B") /\ WithLeg("B", "SELL_TO_OPEN", "xyz", 1, "OPTION")
    \/ \E b \in {"A", "B"} : Len(strategy.orders) < MaxOrders /\ AddOrder(b)
    \/ \E rs \in [1..Len(strategy.orders) -> Responses] :
          AllWithinWarnings(build_all(builders, strategy, rs).bs) /\ BuildAll(rs)

SpecStrategy == Init /\ [][NextStrategy]_vars

(***************************************************************************)
(* SpecCovered: a CoveredCall strategy under buy_stock, sell_call and      *)
(* at_limit.                                                               *)
(***************************************************************************)
StockQuantities == {0 - 100, 100, 200}
CallContracts == {0, 1, 2, 3}

MaxCovered == 3     \* orders a covered call holds: one stock order, two calls

NextCovered ==
    \/ \E q \in StockQuantities : Len(strategy.orders) < MaxCovered /\ BuyStock(q)
    \/ \E n \in CallContracts : Len(strategy.orders) < MaxCovered /\ SellCall("xyz", n)
    \/ \E p \in {0, GoodPrice} : AtLimit(p)
    \/ \E rs \in [1..Len(strategy.orders) -> Responses] : BuildAll(rs)

SpecCovered == InitPlain /\ [][NextCovered]_vars

(***************************************************************************)
(* SpecSubmit: the facade's submit_order on an order of one or two legs,   *)
(* bought, bought to cover or sold, below and above the value ceiling.     *)
(***************************************************************************)
InitSubmit ==
    /\ RICH_AVAILABLE = FALSE
    /\ builders = [b \in Builders |-> OrderBuilder(RICH_AVAILABLE)]
    /\ last = NoCall
    /\ raw = 0
    /\ templates = [n \in TemplateNames |-> None]
    /\ strategy = StrategyBuilder("aapl", RICH_AVAILABLE)
    /\ \E f \in BOOLEAN :
          ez = EZOrders(EZConfig(FALSE, DefaultMaxOrderValue), RICH_AVAILABLE, f)
    /\ client = <<>>
    /\ log = <<>>

NextSubmit ==
    \/ builders["A"].legs = <<>> /\ Buy("A", "aapl")
    \/ builders["A"].legs = <<>> /\ BuyToCover("A", "aapl")
    \/ builders["A"].legs = <<>> /\ Sell("A", "aapl")
    \/ /\ Len(builders["A"].legs) = 1 /\ builders["A"].legs[1].quantity > 0
       /\ Buy("A", "xyz")
    \/ \E q \in {10, 100} : Shares("A", q)
    \/ Limit("A", GoodPrice)
    \/ ~ez._enhanced_validate /\ SetEnhancedValidation
    \/ \E dry_run \in BOOLEAN, valid \in BOOLEAN, reply \in {"ok", "raise"} :
          /\ Len(client) < MaxSubmitted
          /\ SubmitOrder("A", dry_run, TRUE, "y", valid, reply)

SpecSubmit == InitSubmit /\ [][NextSubmit]_vars

(***************************************************************************)
(* SpecSmart: the facade's smart_submit on a one-leg limit order, with and *)
(* without a registered preview function, over what the preview answers.   *)
(***************************************************************************)
Previews ==
    { Preview("raise", "ok", <<>>, 0, <<>>),
      Preview("none", "ok", <<>>, 0, <<>>),
      Preview("dict", "error", <<>>, 0, <<>>),
      Preview("dict", "ok", <<"r">>, 0, <<>>),
      Preview("dict", "ok", <<>>, 65, <<10>>),
      Preview("dict", "ok", <<>>, 65, <<10, 30>>) }

\* max_cost in cents: absent, 0, or one dollar.
MaxCosts == {None, Some(0), Some(100)}

InitSmart ==
    /\ RICH_AVAILABLE = FALSE
    /\ builders = [b \in Builders |-> OrderBuilder(RICH_AVAILABLE)]
    /\ last = NoCall
    /\ raw = 0
    /\ templates = [n \in TemplateNames |-> None]
    /\ strategy = StrategyBuilder("aapl", RICH_AVAILABLE)
    /\ ez = EZOrders(EZConfig(FALSE, DefaultMaxOrderValue), RICH_AVAILABLE, TRUE)
    /\ client = <<>>
    /\ log = <<>>

NextSmart ==
    \/ builders["A"].legs = <<>> /\ Buy("A", "aapl")
    \/ Shares("A", 10)
    \/ Limit("A", GoodPrice)
    \/ ~ez._get_preview /\ SetPreviewFunction
    \/ \E max_cost \in MaxCosts, require_preview \in BOOLEAN,
          preview \in Previews, reply \in {"ok", "raise"} :
          /\ Len(log) < MaxCalls
          /\ SmartSubmit("A", max_cost, require_preview, "y", "y", preview, reply)

SpecSmart == InitSmart /\ [][NextSmart]_vars

(***************************************************************************)
(* SpecBatch: the facade's batch_submit on lists of the orders A and B; A  *)
(* is a one-leg order that may be incomplete or over the value ceiling.    *)
(***************************************************************************)
\* The lists of orders of at most n entries.
OrderLists(n) == UNION {[1..k -> {"A", "B"}] : k \in 0..n}

\* What client_submit_func does for each of n orders: it answers each with
\* status ok or error, or it raises every time.
ReplyLists(n) == [1..n -> {"ok", "error"}] \cup {[i \in 1..n |-> "raise"]}

\* B is a complete order under the ceiling: buy('aapl').shares(10).limit(p).
InitBatch ==
    /\ RICH_AVAILABLE = FALSE
    /\ builders = [b \in Builders |->
          IF b = "B"
          THEN limit(shares(buy(OrderBuilder(RICH_AVAILABLE), "aapl").self, 10).self,
                     GoodPrice).self
          ELSE OrderBuilder(RICH_AVAILABLE)]
    /\ last = NoCall
    /\ raw = 0
    /\ templates = [n \in TemplateNames |-> None]
    /\ strategy = StrategyBuilder("aapl", RICH_AVAILABLE)
    /\ ez = EZOrders(EZConfig(FALSE, DefaultMaxOrderValue), RICH_AVAILABLE, TRUE)
    /\ client = <<>>
    /\ log = <<>>

NextBatch ==
    \/ builders["A"].legs = <<>> /\ Buy("A", "aapl")
    \/ \E q \in {10, 100} : Shares("A", q)
    \/ Limit("A", GoodPrice)
    \/ /\ client = <<>>
       /\ \E orders \in OrderLists(MaxBatch), stop_on_error \in BOOLEAN :
             \E replies \in ReplyLists(Len(orders)) :
                BatchSubmit(orders, stop_on_error, replies)

SpecBatch == InitBatch /\ [][NextBatch]_vars

(***************************************************************************)
(* SpecSubmitStrategy: the facade's submit_strategy on a strategy of the   *)
(* orders A and B, B complete, A built step by step.                       *)
(***************************************************************************)
NextSubmitStrategy ==
    \/ builders["A"].legs = <<>> /\ Buy("A", "aapl")
    \/ Shares("A", 10)
    \/ Limit("A", GoodPrice)
    \/ \E b \in {"A", "B"} : Len(strategy.orders) < MaxOrders /\ AddOrder(b)
    \/ /\ Len(client) < MaxSubmitted
       /\ \E dry_run \in BOOLEAN, replies \in ReplyLists(Len(strategy.orders)) :
             SubmitStrategy(dry_run, [i \in 1..Len(strategy.orders) |-> "y"], replies)

SpecSubmitStrategy == InitBatch /\ [][NextSubmitStrategy]_vars

(***************************************************************************)
(* SpecTemplates: order A with one leg and every kind of pricing, saved as *)
(* a template and loaded as B.                                             *)
(***************************************************************************)
NextTemplates ==
    \/ builders["A"].legs = <<>> /\ Buy("A", "aapl")
    \/ builders["A"].order_type = None /\ Shares("A", 2)
    \/ Limit("A", GoodPrice)
    \/ Stop("A", GoodPrice)
    \/ TrailingStop("A", 5 * Scale, "VALUE", "BID")
    \/ Gtc("A")
    \/ \E n \in TemplateNames : SaveTemplate("A", n)
    \/ \E n \in TemplateNames : LoadTemplate("B", n)
    \/ Build("B", "y")

SpecTemplates == InitPlain /\ [][NextTemplates]_vars

(***************************************************************************)
(* SpecCreate: the order-creating methods of the facade, with and without  *)
(* the confirmation policy, over quantities and limits that are absent,    *)
(* zero and positive.                                                      *)
(***************************************************************************)
Limits == {None, Some(0), Some(GoodPrice)}
CreateQuantities == {0, 10}

InitCreate ==
    /\ RICH_AVAILABLE = FALSE
    /\ builders = [b \in Builders |-> OrderBuilder(RICH_AVAILABLE)]
    /\ last = NoCall
    /\ raw = 0
    /\ templates = [n \in TemplateNames |-> None]
    /\ strategy = StrategyBuilder("aapl", RICH_AVAILABLE)
    /\ \E confirm \in BOOLEAN :
          ez = EZOrders(EZConfig(confirm, DefaultMaxOrderValue), RICH_AVAILABLE, FALSE)
    /\ client = <<>>
    /\ log = <<>>

NextCreate ==
    \/ \E q \in CreateQuantities, lim \in Limits, tif \in {None, Some("GTC")} :
          Create("EZOrders_buy", "A", <<"aapl", q, lim, tif>>,
                 EZOrders_buy(ez, "aapl", q, lim, tif), NoOthers)
    \/ \E q \in CreateQuantities, lim \in Limits, tif \in {None, Some("GTC")} :
          Create("EZOrders_sell", "A", <<"aapl", q, lim, tif>>,
                 EZOrders_sell(ez, "aapl", q, lim, tif), NoOthers)
    \/ \E q \in CreateQuantities, lim \in Limits :
          Create("EZOrders_stop_loss", "A", <<"aapl", q, GoodPrice, lim>>,
                 EZOrders_stop_loss(ez, "aapl", q, GoodPrice, lim), NoOthers)
    \/ \E q \in CreateQuantities :
          Create("EZOrders_trailing_stop_loss", "A", <<"aapl", q, 5 * Scale, "VALUE">>,
                 EZOrders_trailing_stop_loss(ez, "aapl", q, 5 * Scale, "VALUE"), NoOthers)
    \/ \E q \in CreateQuantities, p \in {0, GoodPrice} :
          \E r \in {EZOrders_bracket_order(ez, "B", "C", "aapl", q, GoodPrice, p, GoodPrice)} :
             Create("EZOrders_bracket_order", "A", <<"aapl", q, GoodPrice, p, GoodPrice>>,
                    [self |-> r.self, out |-> r.out], r.others)
    \/ \E q \in CreateQuantities, lim \in Limits :
          Create("EZOrders_buy_call", "A", <<"xyz", q, lim>>,
                 EZOrders_buy_call(ez, "xyz", q, lim), NoOthers)
    \/ \E q \in CreateQuantities, lim \in Limits :
          Create("EZOrders_sell_call", "A", <<"xyz", q, lim>>,
                 EZOrders_sell_call(ez, "xyz", q, lim), NoOthers)
    \/ \E q \in CreateQuantities, lim \in Limits :
          Create("EZOrders_buy_put", "A", <<"xyz", q, lim>>,
                 EZOrders_buy_put(ez, "xyz", q, lim), NoOthers)
    \/ \E q \in CreateQuantities, lim \in Limits :
          Create("EZOrders_sell_put", "A", <<"xyz", q, lim>>,
                 EZOrders_sell_put(ez, "xyz", q, lim), NoOthers)
    \/ \E q \in CreateQuantities, t \in {"NET_DEBIT", "NET_CREDIT", "LIMIT"} :
          Create("EZOrders_vertical_spread", "A", <<"aapl", "xyz", q, GoodPrice, t>>,
                 EZOrders_vertical_spread(ez, "aapl", "xyz", q, GoodPrice, t), NoOthers)
    \/ \E q \in CreateQuantities, p \in {0, GoodPrice} :
          Create("EZOrders_iron_condor_order", "A", <<"aapl", "xyz", "xyz", "aapl", q, p>>,
                 EZOrders_iron_condor_order(ez, "aapl", "xyz", "xyz", "aapl", q, p), NoOthers)
    \/ \E q \in CreateQuantities, lim \in Limits : QuickBuy("aapl", q, lim)
    \/ \E q \in CreateQuantities, lim \in Limits : QuickSell("aapl", q, lim)
    \/ \E r \in Responses : Build("A", r)

SpecCreate == InitCreate /\ [][NextCreate]_vars

(***************************************************************************)
(* Claims                                                                  *)
(***************************************************************************)
\* The last call was op on some builder and it returned.
Returned(op) == last.op = op /\ last.exc = ""

\* _validate_order would raise on these attributes.
Invalid(self) == _validate_order(self).out.exc # ""

\* C1 (Spec): recursive validation.  Whenever build() on a builder returns a
\* payload, no descendant of that builder (a builder reachable through
\* child_orders) would itself fail validation.
C1_RecursiveValidation ==
    Returned("build") => \A d \in Descendants(builders, last.b) : ~Invalid(builders[d])

\* C2 (Spec), as stated: when build() has returned a payload and build() is
\* called again on the same builder with no call in between, the second
\* call returns too, with an equal payload.
C2_SecondBuildSucceeds ==
    [][(Returned("build") /\ last'.op = "build" /\ last'.b = last.b)
          => (last'.exc = "" /\ last'.value = last.value)]_vars

\* C2 (Spec), amended: the second build() returns a payload equal to the
\* first, unless the builder requires confirmation, has a console and the
\* user declines the prompt, in which case it fails as cancelled.
C2_IdempotentUnlessDeclined ==
    [][(Returned("build") /\ last'.op = "build" /\ last'.b = last.b)
          => IF last'.exc = ""
             THEN last'.value = last.value
             ELSE /\ builders[last.b].require_confirm
                  /\ builders[last.b].console
                  /\ last'.args[1] \notin {"y", "yes"}
                  /\ last'.exc = "ValidationError"
                  /\ last'.msg = "Order cancelled by user"]_vars

\* A second build() in a row that returned a payload with a nested child
\* payload, on a builder that asks for confirmation and whose two builds
\* each left a warning.
C2_Witness ==
    /\ Returned("build") /\ last.again
    /\ Len(builders[last.b].warnings) = 2
    /\ "childOrderStrategies" \in DOMAIN last.value
    /\ builders[last.b].require_confirm

\* C3 (SpecLegs): build() returns a payload only for a builder with at least
\* one leg, all of whose legs have quantity > 0; on a builder without legs
\* build() fails with the leg-count error and validate() returns False,
\* whatever else has been set.
C3_BuildNeedsLegs ==
    LET self == builders[last.b]
    IN  /\ Returned("build")
            => /\ self.legs # <<>>
               /\ \A i \in 1..Len(self.legs) : self.legs[i].quantity > 0
        /\ (last.op = "build" /\ self.legs = <<>>)
            => /\ last.exc = "ValidationError"
               /\ last.msg = "Order must have at least one leg"
        /\ (last.op = "validate" /\ self.legs = <<>>)
            => (last.exc = "" /\ last.value = FALSE)

\* build() failed on a builder without legs that has a LIMIT price, a time
\* in force, a strategy tag and a child set.
C3_Witness ==
    /\ last.op = "build" /\ last.exc = "ValidationError"
    /\ builders[last.b].legs = <<>>
    /\ builders[last.b].order_type = Some("LIMIT")
    /\ builders[last.b].price # None
    /\ builders[last.b].time_in_force = "GOOD_TILL_CANCEL"
    /\ builders[last.b].complex_order_strategy = "VERTICAL"
    /\ builders[last.b].child_orders # <<>>

\* C4 (SpecPricing): every payload build() returns carries the fields its
\* order type requires: price for LIMIT, STOP_LIMIT, NET_DEBIT and
\* NET_CREDIT, stopPrice for STOP and STOP_LIMIT, stopPriceOffset for
\* TRAILING_STOP and TRAILING_STOP_LIMIT.
C4_RequiredFields ==
    Returned("build")
        => LET payload == last.value
           IN  /\ payload["orderType"] \in {"LIMIT", "STOP_LIMIT", "NET_DEBIT", "NET_CREDIT"}
                      => "price" \in DOMAIN payload
               /\ payload["orderType"] \in {"STOP", "STOP_LIMIT"}
                      => "stopPrice" \in DOMAIN payload
               /\ payload["orderType"] \in {"TRAILING_STOP", "TRAILING_STOP_LIMIT"}
                      => "stopPriceOffset" \in DOMAIN payload

\* build() returned a TRAILING_STOP_LIMIT payload without a price: the
\* state a trailing_stop_limit call leaves when its limit price is rejected
\* after an earlier trailing_stop call set the offset.
C4_Witness ==
    /\ Returned("build")
    /\ last.value["orderType"] = "TRAILING_STOP_LIMIT"
    /\ "stopPriceOffset" \in DOMAIN last.value
    /\ "price" \notin DOMAIN last.value

\* The pricing attributes of a builder.
PricingState(self) ==
    <<self.order_type, self.price, self.stop_price, self.stop_price_link_basis,
      self.stop_price_link_type, self.stop_price_offset>>

PricingSelectors ==
    {"market", "limit", "stop", "stop_limit", "trailing_stop", "trailing_stop_limit",
     "net_debit", "net_credit", "net_zero"}

\* The attributes of a new builder after the one selector call op(args).
SelectorAlone(op, args) ==
    LET fresh == OrderBuilder(FALSE)
    IN  CASE op = "market" -> market(fresh).self
          [] op = "limit" -> limit(fresh, args[1]).self
          [] op = "stop" -> stop(fresh, args[1]).self
          [] op = "stop_limit" -> stop_limit(fresh, args[1], args[2]).self
          [] op = "trailing_stop" -> trailing_stop(fresh, args[1], args[2], args[3]).self
          [] op = "trailing_stop_limit" ->
                 trailing_stop_limit(fresh, args[1], args[2], args[3], args[4]).self
          [] op = "net_debit" -> net_debit(fresh, args[1]).self
          [] op = "net_credit" -> net_credit(fresh, args[1]).self
          [] op = "net_zero" -> net_zero(fresh).self

\* C5 (SpecPricing): last write wins.  After a pricing selector call that
\* returned, the pricing attributes of the builder are those the same call
\* leaves on a new builder: nothing of an earlier selector survives.
C5_LastWriteWins ==
    (last.op \in PricingSelectors /\ last.exc = "")
        => PricingState(builders[last.b]) = PricingState(SelectorAlone(last.op, last.args))

\* C6 (SpecFormat): the formatter truncates.  For a raw price p > 0 the
\* result is the decimal string of p cut (toward zero) to 2 fractional
\* digits when p >= 1.0 and to 4 when p < 1.0, so its value is at most p and
\* less than one tick below p; 150.567 gives "150.56", 0.12345 gives
\* "0.1234" and 1.005 gives "1.00".
C6_Truncates ==
    (last.op = "_format_price" /\ last.args[1] > 0)
        => LET p == last.args[1]
               digits == IF p >= Scale THEN 2 ELSE 4
               tick == Scale \div (10 ^ digits)
               kept == p \div tick
           IN  /\ last.exc = ""
               /\ last.value = DecimalStr(kept, digits)
               /\ kept * tick <= p
               /\ p - kept * tick < tick
               /\ p = GoodPrice => last.value = "150.56"
               /\ p = 12345 => last.value = "0.1234"
               /\ p = Scale + 500 => last.value = "1.00"

\* The formatter has returned "150.56" for 150.567.
C6_Witness ==
    /\ Returned("_format_price")
    /\ last.args[1] = GoodPrice
    /\ last.value = "150.56"

\* The positions, in the arguments of a pricing selector, of its numeric
\* values.
NumericArgs(op) ==
    CASE op \in {"limit", "stop", "net_debit", "net_credit", "trailing_stop"} -> {1}
      [] op \in {"stop_limit", "trailing_stop_limit"} -> {1, 2}
      [] OTHER -> {}

InvalidPrice == last.exc = "ValidationError" /\ last.msg = "Price must be positive"

\* C7 (SpecPricing): a pricing selector call fails with the invalid-price
\* error whenever any numeric value it is given (a price or a trailing
\* offset) is <= 0.
C7_EveryNumberChecked ==
    (\E i \in NumericArgs(last.op) : last.args[i] <= 0) => InvalidPrice

\* C8 (SpecLegs): shares(q) and contracts(q) on a builder without legs fail
\* with the no-active-leg error for every q, and leave every builder as it was.
C8_NoActiveLeg ==
    [][(last'.op \in {"shares", "contracts"} /\ builders[last'.b].legs = <<>>)
          => /\ last'.exc = "ValidationError"
             /\ last'.msg = "Must specify buy/sell action before quantity"
             /\ builders' = builders]_vars

\* shares(2) has failed on a builder without legs whose pricing is set.
C8_Witness ==
    /\ last.op = "shares" /\ last.args[1] = 2
    /\ last.exc = "ValidationError"
    /\ builders[last.b].legs = <<>>
    /\ builders[last.b].order_type = Some("LIMIT")

\* C9 (SpecLegs): shares, contracts and with_leg reject a quantity <= 0 at
\* the time of the call, and no builder holds a leg with a negative quantity.
C9_QuantityRejected ==
    /\ (last.op \in {"shares", "contracts"} /\ last.args[1] <= 0)
           => last.exc = "ValidationError"
    /\ (last.op = "with_leg" /\ last.args[3] <= 0) => last.exc = "ValidationError"
    /\ \A b \in Builders : \A i \in 1..Len(builders[b].legs) :
           builders[b].legs[i].quantity >= 0

\* C10 (SpecLegs): a shares(q) or contracts(q) call that returns sets the
\* quantity of the last leg to q and changes nothing else of the legs, the
\* pricing, the time in force, the strategy tag or the children, of this or
\* any other builder; and build() fails on a builder one of whose legs
\* still has quantity 0.
C10_QuantityFrame ==
    [][/\ (last'.op \in {"shares", "contracts"} /\ last'.exc = "")
           => LET old == builders[last'.b]
                  new == builders'[last'.b]
                  n == Len(old.legs)
              IN  /\ n > 0
                  /\ new.legs = [old.legs EXCEPT ![n].quantity = last'.args[1]]
                  /\ PricingState(new) = PricingState(old)
                  /\ new.time_in_force = old.time_in_force
                  /\ new.complex_order_strategy = old.complex_order_strategy
                  /\ new.order_strategy = old.order_strategy
                  /\ new.child_orders = old.child_orders
                  /\ \A c \in Builders \ {last'.b} : builders'[c] = builders[c]
       /\ (last.op = "build"
              /\ \E i \in 1..Len(builders[last.b].legs) : builders[last.b].legs[i].quantity = 0)
           => last.exc = "ValidationError"]_vars

\* contracts(2) has returned on a builder with two legs, and the first leg
\* still has quantity 0.
C10_Witness ==
    /\ Returned("contracts") /\ last.args[1] = 2
    /\ Len(builders[last.b].legs) = 2
    /\ builders[last.b].legs[1].quantity = 0
    /\ builders[last.b].legs[2].quantity = 2
    /\ builders[last.b].order_type # None

\* The leg a returning leg-adding call op(args) appends.
LegAdded(op, args) ==
    CASE op = "add_leg" -> OrderLeg(args[1], upper(args[2]), 0, args[3])
      [] op = "with_leg" -> OrderLeg(args[1], upper(args[2]), args[3], args[4])
      [] op \in {"buy", "sell", "sell_short", "buy_to_cover"} ->
            OrderLeg(CASE op = "buy" -> "BUY" [] op = "sell" -> "SELL"
                       [] op = "sell_short" -> "SELL_SHORT" [] OTHER -> "BUY_TO_COVER",
                     upper(args[1]), 0, "EQUITY")
      [] OTHER ->
            OrderLeg(CASE op = "buy_to_open" -> "BUY_TO_OPEN"
                       [] op = "sell_to_close" -> "SELL_TO_CLOSE"
                       [] op = "sell_to_open" -> "SELL_TO_OPEN" [] OTHER -> "BUY_TO_CLOSE",
                     upper(args[1]), 0, "OPTION")

LegAdders ==
    {"buy", "sell", "sell_short", "buy_to_cover", "buy_to_open", "sell_to_close",
     "sell_to_open", "buy_to_close", "add_leg", "with_leg"}

\* The value of the tag a strategy-tag call sets.
StrategyTag(op) ==
    CASE op = "vertical_spread" -> "VERTICAL"
      [] op = "iron_condor_strategy" -> "IRON_CONDOR"
      [] op = "straddle_strategy" -> "STRADDLE"
      [] op = "strangle_strategy" -> "STRANGLE"
      [] op = "butterfly_strategy" -> "BUTTERFLY"
      [] OTHER -> "CUSTOM"

StrategyTags ==
    {"vertical_spread", "iron_condor_strategy", "straddle_strategy",
     "strangle_strategy", "butterfly_strategy", "custom_strategy"}

\* C11 (SpecPayload): the legs of a builder are the legs added since its
\* construction or last reset, in the order added (a quantity call changes
\* the quantity of a leg and nothing else of it), its tag is the last one
\* set; and the payload build() returns has one orderLegCollection entry
\* per leg, in that order, with the leg's instruction, quantity, symbol and
\* asset type, and complexOrderStrategyType, with the tag's value, exactly
\* when a tag is set.
C11_PayloadLegs ==
    [][LET b == last'.b
           old == builders[b]
           new == builders'[b]
       IN  /\ CASE last'.op \in LegAdders /\ last'.exc = "" ->
                     new.legs = Append(old.legs, LegAdded(last'.op, last'.args))
                [] last'.op = "reset" -> new.legs = <<>>
                [] OTHER ->
                     /\ Len(new.legs) = Len(old.legs)
                     /\ \A i \in 1..Len(old.legs) :
                            [new.legs[i] EXCEPT !.quantity = 0]
                                = [old.legs[i] EXCEPT !.quantity = 0]
           /\ CASE last'.op \in StrategyTags ->
                     new.complex_order_strategy = StrategyTag(last'.op)
                [] last'.op = "reset" -> new.complex_order_strategy = "NONE"
                [] OTHER -> new.complex_order_strategy = old.complex_order_strategy
           /\ (last'.op = "build" /\ last'.exc = "") =>
                 LET v == last'.value
                 IN  /\ DOMAIN v.orderLegCollection = 1..Len(old.legs)
                     /\ \A i \in 1..Len(old.legs) :
                            /\ v.orderLegCollection[i].instruction = old.legs[i].action
                            /\ v.orderLegCollection[i].quantity = old.legs[i].quantity
                            /\ v.orderLegCollection[i].instrument.symbol = old.legs[i].symbol
                            /\ v.orderLegCollection[i].instrument.assetType
                                   = old.legs[i].asset_type
                     /\ ("complexOrderStrategyType" \in DOMAIN v)
                            <=> (old.complex_order_strategy # "NONE")
                     /\ ("complexOrderStrategyType" \in DOMAIN v)
                            => v["complexOrderStrategyType"] = old.complex_order_strategy
      ]_vars

\* The vertical spread of two with_leg calls and net_debit(3.00) has been
\* built: two legs on different symbols and the VERTICAL tag.
C11_Witness ==
    /\ Returned("build")
    /\ Len(last.value.orderLegCollection) = 2
    /\ last.value.orderLegCollection[1].instrument.symbol = "XYZ"
    /\ last.value.orderLegCollection[2].instrument.symbol = "AAPL"
    /\ last.value.orderLegCollection[1].instruction = "BUY_TO_OPEN"
    /\ last.value.orderLegCollection[2].instruction = "BUY_TO_OPEN"
    /\ "complexOrderStrategyType" \in DOMAIN last.value
    /\ last.value["complexOrderStrategyType"] = "VERTICAL"
    /\ last.value.orderType = "NET_DEBIT"
    /\ last.value.price = "3.00"

\* C12 (SpecChildren): the children of a builder are the builders attached
\* to it by one_triggers_other / one_cancels_other since its construction
\* or last reset, in call order, and its composition mode is that of the
\* last such call; and the payload build() returns carries that mode and,
\* under childOrderStrategies, the payloads of the children in that order.
C12_ChildrenInOrder ==
    [][LET b == last'.b
           old == builders[b]
           new == builders'[b]
       IN  /\ CASE last'.op \in {"one_triggers_other", "one_cancels_other"} ->
                     /\ last'.exc = ""
                     /\ new.child_orders = Append(old.child_orders, last'.args[1])
                     /\ new.order_strategy =
                            (IF last'.op = "one_triggers_other" THEN "TRIGGER" ELSE "OCO")
                [] last'.op = "reset" -> new.child_orders = <<>>
                [] OTHER -> new.child_orders = old.child_orders
           /\ \A c \in Builders \ {b} :
                  builders'[c].child_orders = builders[c].child_orders
           /\ (last'.op = "build" /\ last'.exc = "" /\ old.child_orders # <<>>) =>
                 LET v == last'.value
                 IN  /\ v.orderStrategyType = old.order_strategy
                     /\ "childOrderStrategies" \in DOMAIN v
                     /\ DOMAIN v["childOrderStrategies"] = 1..Len(old.child_orders)
                     /\ \A i \in 1..Len(old.child_orders) :
                            LET child == v["childOrderStrategies"][i]
                                c == builders[old.child_orders[i]]
                            IN  /\ child = order(builders, old.child_orders[i])
                                /\ DOMAIN child.orderLegCollection = 1..Len(c.legs)
                                /\ \A j \in 1..Len(c.legs) :
                                       /\ child.orderLegCollection[j].instruction
                                              = c.legs[j].action
                                       /\ child.orderLegCollection[j].instrument.symbol
                                              = c.legs[j].symbol
      ]_vars

\* A was given C and then B, under two different modes, and built: the
\* payload carries the last mode and C's payload before B's, B's with C's
\* nested in it.
C12_Witness ==
    /\ Returned("build")
    /\ builders["A"].child_orders = <<"C", "B">>
    /\ builders["B"].legs # <<>> /\ builders["C"].legs # <<>>
    /\ builders["B"].child_orders = <<"C">>
    /\ last.value.orderStrategyType = "OCO"
    /\ last.value["childOrderStrategies"][1].orderLegCollection[1].instruction = "SELL_SHORT"
    /\ last.value["childOrderStrategies"][2].orderLegCollection[1].instruction = "SELL"
    /\ last.value["childOrderStrategies"][2]["childOrderStrategies"][1]
           = last.value["childOrderStrategies"][1]

\* In the payload v and in every payload nested in it, childOrderStrategies
\* is present exactly when orderStrategyType is not SINGLE.
RECURSIVE ModeMatchesChildren(_)
ModeMatchesChildren(v) ==
    /\ ("childOrderStrategies" \in DOMAIN v) <=> (v.orderStrategyType # "SINGLE")
    /\ ("childOrderStrategies" \in DOMAIN v) =>
          \A i \in DOMAIN v["childOrderStrategies"] :
              ModeMatchesChildren(v["childOrderStrategies"][i])

\* C13 (SpecModes): in every reachable state every builder has composition
\* mode TRIGGER or OCO exactly when its list of children is not empty, and
\* every payload build() returns has childOrderStrategies exactly when its
\* orderStrategyType is not SINGLE, at every level of nesting.
C13_ModeIffChildren ==
    /\ \A b \in Builders :
          (builders[b].order_strategy \in {"TRIGGER", "OCO"})
              <=> (builders[b].child_orders # <<>>)
    /\ \A b \in Builders : builders[b].order_strategy \in {"SINGLE", "TRIGGER", "OCO"}
    /\ Returned("build") => ModeMatchesChildren(last.value)

\* A, loaded from a template and then given B as a triggered order, B
\* having C as a child, has been built.
C13_Witness ==
    /\ Returned("build")
    /\ templates["t"] # None
    /\ last.value.orderStrategyType = "TRIGGER"
    /\ last.value["childOrderStrategies"][1].orderStrategyType = "OCO"
    /\ last.value["childOrderStrategies"][1]["childOrderStrategies"][1].orderStrategyType
           = "SINGLE"
    /\ builders["C"].legs # <<>>

\* C14 (Spec): confirmation gate.  When build() returns a payload for a
\* builder on which require_confirmation() has been called, the user was
\* prompted and accepted, whether or not the builder has a console.
C14_ConfirmationGate ==
    (Returned("build") /\ builders[last.b].require_confirm)
        => (Prompts(builders[last.b]) /\ last.args[1] \in {"y", "yes"})

\* C15 (Spec): validate() does not raise, and it returns True exactly when
\* build() on the same state, with no confirmation required, would return
\* a payload.
C15_ValidateAgreesWithBuild ==
    (last.op = "validate")
        => /\ last.exc = ""
           /\ LET unconfirmed ==
                      [builders EXCEPT ![last.b].require_confirm = FALSE]
              IN  (last.value = TRUE)
                      <=> (build(unconfirmed, last.b, "y").out.exc = "")

\* The warnings list of the builder holds the message.
Warned(self, message) == \E i \in 1..Len(self.warnings) : self.warnings[i] = message

\* C16 (SpecWarnings): advisory warnings.  A builder with an equity leg of
\* more than 1000 shares holds the large-order advisory for that quantity,
\* one with an option leg of more than 10 contracts the large-options-order
\* advisory, and a MARKET order with a leg of more than 500 the
\* large-market-order advisory, whichever calls set the quantity and the
\* pricing and in whichever order; and a build() that fails would fail
\* without the warnings too.
C16_AdvisoryWarnings ==
    \A b \in Builders :
        LET self == builders[b]
        IN  /\ \A i \in 1..Len(self.legs) :
                   /\ (self.legs[i].asset_type = "EQUITY" /\ self.legs[i].quantity > 1000)
                         => Warned(self, "Large order: "
                                            \o Commas(self.legs[i].quantity) \o " shares")
                   /\ (self.legs[i].asset_type = "OPTION" /\ self.legs[i].quantity > 10)
                         => Warned(self, "Large options order: "
                                            \o ToString(self.legs[i].quantity) \o " contracts")
                   /\ (self.order_type = Some("MARKET") /\ self.legs[i].quantity > 500)
                         => Warned(self, "Large market order - consider using limit order")
            /\ (last.op = "build" /\ last.b = b /\ last.exc # "")
                   => Invalid([self EXCEPT !.warnings = <<>>])

\* The i-th order of the strategy would build, given the answer responses[i].
OrderBuilds(i, responses) ==
    build(builders, strategy.orders[i], responses[i]).out.exc = ""

\* C17 (SpecStrategy): build_all is fail-fast.  When every order of the
\* strategy builds, build_all returns the list of their payloads, one per
\* order in the order added; otherwise it raises what the first failing
\* build raises, returns no list, and builds no order after that one.
C17_BuildAllFailFast ==
    [][(last'.op = "build_all") =>
         LET os == strategy.orders
             rs == last'.args[1]
             failing == {i \in 1..Len(os) : ~OrderBuilds(i, rs)}
         IN  IF failing = {}
             THEN /\ last'.exc = ""
                  /\ DOMAIN last'.value = 1..Len(os)
                  /\ \A i \in 1..Len(os) :
                         /\ last'.value[i] = order(builders, os[i])
                         /\ last'.value[i] = build(builders, os[i], rs[i]).out.value
             ELSE LET first == CHOOSE i \in failing : \A j \in failing : i <= j
                  IN  /\ last'.exc = build(builders, os[first], rs[first]).out.exc
                      /\ last'.msg = build(builders, os[first], rs[first]).out.msg
                      /\ last'.exc # ""
                      /\ last'.value = None
                      /\ \A b \in Builders :
                             (\A i \in 1..first : os[i] # b)
                                 => builders'[b] = builders[b]
      ]_vars

\* build_all has failed on its first order, A, whose user declined, and B,
\* the second order, which would have built and been warned, is untouched.
C17_Witness ==
    /\ last.op = "build_all" /\ last.exc = "ValidationError"
    /\ last.msg = "Order cancelled by user"
    /\ strategy.orders = <<"A", "B">>
    /\ Len(builders["B"].legs) = 2
    /\ builders["B"].warnings = <<>>

\* The shares of the buy-stock orders the strategy holds.
RECURSIVE SharesBought(_, _)
SharesBought(bs, orders) ==
    IF orders = <<>> THEN 0
    ELSE (IF bs[Head(orders)].legs[1].action = "BUY"
          THEN bs[Head(orders)].legs[1].quantity ELSE 0)
         + SharesBought(bs, Tail(orders))

\* C18 (SpecCovered): sell_call(symbol, c) raises the insufficient-coverage
\* error (a ValueError) whenever c * 100 exceeds the shares bought through
\* buy_stock, be that the shares of the buy-stock orders held or the
\* quantity of the last buy_stock call, and a sell_call that raises leaves
\* the strategy's orders as they were.
C18_InsufficientCoverage ==
    [][(last'.op = "sell_call") =>
         LET c == last'.args[2]
         IN  /\ (\/ c * 100 > SharesBought(builders, strategy.orders)
                 \/ c * 100 > strategy.stock_quantity)
                   => /\ last'.exc = "ValueError"
                      /\ last'.msg = "Cannot sell " \o ToString(c)
                             \o " calls - only have "
                             \o ToString(strategy.stock_quantity) \o " shares"
             /\ last'.exc # "" =>
                   /\ strategy'.orders = strategy.orders
                   /\ builders' = builders
             /\ last'.exc = "" =>
                   /\ strategy'.orders = Append(strategy.orders, last'.b)
                   /\ builders'[last'.b].legs
                          = <<OrderLeg("SELL_TO_OPEN", upper(last'.args[1]), c, "OPTION")>>
      ]_vars

\* buy_stock(100) has been followed by sell_call(symbol, 2), which failed
\* for lack of coverage and added nothing.
C18_Witness ==
    /\ last.op = "sell_call" /\ last.args[2] = 2
    /\ last.exc = "ValueError"
    /\ last.msg = "Cannot sell 2 calls - only have 100 shares"
    /\ Len(strategy.orders) = 1
    /\ builders[strategy.orders[1]].legs[1].quantity = 100

\* The notional value of a payload: its price times the summed quantity of
\* its legs with a buy instruction; 0 for a payload without a price.
Notional(v) ==
    IF "price" \in DOMAIN v
    THEN SumValue(v.orderLegCollection, float(v.price),
                  {"BUY", "BUY_TO_COVER", "BUY_TO_OPEN", "BUY_TO_CLOSE"})
    ELSE 0

\* C19 (SpecSubmit): notional ceiling.  No payload client_submit_func has
\* been called with has a notional value above config.max_order_value.
C19_NotionalCeiling ==
    \A i \in 1..Len(client) : Notional(client[i]) <= ez.config.max_order_value

\* C20 (SpecSubmit): a submit_order call calls client_submit_func at most
\* once, and only when it is not a dry run, build() on the order has
\* returned and the value check on the payload has passed, and then with
\* the payload build() returned; a dry run calls nothing and leaves the
\* order history as it was.
C20_SubmitOrdering ==
    [][(last'.op = "submit_order") =>
         LET dry_run == last'.args[1]
             built == build(builders, last'.b, last'.args[3]).out
             calls == Len(client') - Len(client)
         IN  /\ calls \in {0, 1}
             /\ \A i \in 1..Len(client) : client'[i] = client[i]
             /\ calls = 1 =>
                   /\ ~dry_run
                   /\ built.exc = ""
                   /\ _validate_order_value(ez, built.value).exc = ""
                   /\ client'[Len(client')] = built.value
             /\ dry_run => (client' = client /\ ez'.order_history = ez.order_history)
             /\ calls = 0 => ez'.order_history = ez.order_history
      ]_vars

\* A two-leg order under the ceiling went through enhanced validation and
\* to client_submit_func, and is in the order history with its response.
C20_Witness ==
    /\ last.op = "submit_order" /\ last.args[1] = FALSE
    /\ ez._enhanced_validate
    /\ Len(client) = 1
    /\ Len(client[1].orderLegCollection) = 2
    /\ "price" \in DOMAIN client[1] /\ client[1].price = "150.56"
    /\ Len(ez.order_history) = 1
    /\ ez.order_history[1].order = client[1]
    /\ last.value = Some([status |-> "ok"])

\* C21 (SpecSmart): a smart_submit call with require_preview=True on a
\* facade with a registered preview function calls client_submit_func only
\* after it has called the preview function, with the same payload; when
\* the preview returns status 'error' or one or more rejects, the call
\* returns None and client_submit_func is not called.
C21_PreviewGate ==
    [][(last'.op = "smart_submit" /\ last'.args[2] /\ ez._get_preview) =>
         LET preview == last'.args[5]
             new == SubSeq(log', Len(log) + 1, Len(log'))
         IN  /\ \A i \in 1..Len(new) :
                   new[i].fn = "submit" =>
                     \E j \in 1..(i - 1) :
                         new[j].fn = "preview" /\ new[j].order = new[i].order
             /\ (preview.kind = "dict"
                  /\ (preview.status = "error" \/ Len(preview.rejects) >= 1)) =>
                   /\ last'.value = None
                   /\ client' = client
                   /\ \A i \in 1..Len(new) : new[i].fn # "submit"
      ]_vars

\* The preview of a buildable order came back with a reject: the preview
\* function has been called, client_submit_func has not.
C21_Witness ==
    /\ last.op = "smart_submit" /\ last.args[2]
    /\ ez._get_preview
    /\ last.args[5].kind = "dict" /\ last.args[5].rejects = <<"r">>
    /\ Len(log) = 1 /\ log[1].fn = "preview"
    /\ log[1].order.orderType = "LIMIT"
    /\ client = <<>>
    /\ last.value = None

\* Whether submit_order on builder b reaches client_submit_func.
ReachesClient(b) ==
    /\ ez.client_submit_func
    /\ build(builders, b, "y").out.exc = ""
    /\ _validate_order_value(ez, build(builders, b, "y").out.value).exc = ""

\* The payloads of the orders at positions from..to of the list that reach
\* client_submit_func, in list order.
RECURSIVE PayloadsSent(_, _, _)
PayloadsSent(orders, from, to) ==
    IF from > to THEN <<>>
    ELSE (IF ReachesClient(orders[from])
          THEN <<build(builders, orders[from], "y").out.value>> ELSE <<>>)
         \o PayloadsSent(orders, from + 1, to)

\* C22 (SpecBatch): batch_submit returns one entry per order it submitted,
\* in list order, and client_submit_func is called, in list order and once
\* each, with the payloads of exactly those of these orders that build and
\* pass the value check.  With stop_on_error=True the entries before the
\* last are not failed and the list is shorter than the orders only when
\* its last entry is failed; with stop_on_error=False there is one entry
\* per order.
C22_BatchOrder ==
    [][(last'.op = "batch_submit") =>
         LET orders == last'.args[1]
             stop_on_error == last'.args[2]
             responses == last'.value
             n == Len(responses)
         IN  /\ n <= Len(orders)
             /\ client' = client \o PayloadsSent(orders, 1, n)
             /\ \A i \in 1..n : ~ReachesClient(orders[i]) => responses[i] = None
             /\ ~stop_on_error => n = Len(orders)
             /\ stop_on_error =>
                   /\ \A i \in 1..(n - 1) : ~Failed(responses[i])
                   /\ n < Len(orders) => Failed(responses[n])
      ]_vars

\* A batch of two orders stopped at its first order, which the client
\* answered with status 'error': the second order was not submitted.
C22_Witness ==
    /\ last.op = "batch_submit"
    /\ Len(last.args[1]) = 2 /\ last.args[2]
    /\ ReachesClient(last.args[1][2])
    /\ Len(last.value) = 1
    /\ last.value[1] = Some([status |-> "error"])
    /\ Len(client) = 1

\* The payloads of the orders of the strategy, in strategy order.
StrategyPayloads ==
    [i \in 1..Len(strategy.orders) |-> build(builders, strategy.orders[i], "y").out.value]

\* C23 (SpecSubmitStrategy): after submit_strategy(strategy, dry_run=False)
\* on a strategy whose orders all build and pass the value check, with a
\* client that answers every call, client_submit_func has been called once
\* per order with that order's payload, in strategy order, and the list
\* returned has one response per order.
C23_SubmitsEveryOrder ==
    (/\ last.op = "submit_strategy" /\ ~last.args[1]
     /\ \A i \in 1..Len(strategy.orders) : ReachesClient(strategy.orders[i])
     /\ \A i \in 1..Len(strategy.orders) : last.args[3][i] = "ok") =>
       /\ Len(client) >= Len(strategy.orders)
       /\ SubSeq(client, Len(client) - Len(strategy.orders) + 1, Len(client))
              = StrategyPayloads
       /\ last.value # None
       /\ Len(Val(last.value)) = Len(strategy.orders)

\* The value of a key of a payload, if the payload has the key.
Field(payload, key) == IF key \in DOMAIN payload THEN Some(payload[key]) ELSE None

\* The legs, order type, price fields and time in force of a payload.
SavedFields(payload) ==
    [key \in {"orderLegCollection", "orderType", "price", "stopPrice",
              "stopPriceLinkBasis", "stopPriceLinkType", "stopPriceOffset",
              "duration"} |-> Field(payload, key)]

\* C24 (SpecTemplates): template round trip.  When a template has just been
\* loaded, every other builder without children that builds and whose
\* save_template would write the file that was loaded has the same legs,
\* order type, price fields and time in force in its payload as the loaded
\* builder, whose build() succeeds too.
C24_TemplateRoundTrip ==
    (last.op = "load_template" /\ last.exc = "") =>
      \A b \in Builders \ {last.b} :
         (/\ builders[b].child_orders = <<>>
          /\ build(builders, b, "y").out.exc = ""
          /\ templates[last.args[1]] = Some(template(builders[b]))) =>
           /\ build(builders, last.b, "y").out.exc = ""
           /\ SavedFields(build(builders, last.b, "y").out.value)
                = SavedFields(build(builders, b, "y").out.value)

\* C25 (Spec): build() and validate() are pure.  Whether the call returns
\* or raises, every attribute of the builder (legs, pricing fields, time in
\* force, strategy tag, composition mode, children, confirmation flag,
\* warnings) is after the call what it was before.
C25_BuildIsPure ==
    [][(last'.op \in {"build", "validate"}) => builders'[last'.b] = builders[last'.b]]_vars

\* The order-creating methods of the facade.
Creators ==
    {"EZOrders_buy", "EZOrders_sell", "EZOrders_stop_loss", "EZOrders_trailing_stop_loss",
     "EZOrders_bracket_order", "EZOrders_buy_call", "EZOrders_sell_call",
     "EZOrders_buy_put", "EZOrders_sell_put", "EZOrders_vertical_spread",
     "EZOrders_iron_condor_order"}

\* C26 (SpecCreate): confirmation policy.  When config.require_confirmation
\* is true, the builder an order-creating method of the facade has just
\* returned has its confirmation flag set.
C26_ConfirmationPolicy ==
    (last.op \in Creators /\ last.exc = "" /\ ez.config.require_confirmation) =>
       builders[last.b].require_confirm

\* C27 (Spec): build() ends by returning a payload or by raising a
\* validation failure, also on a builder attached to itself or to one of
\* its own descendants.
C27_BuildTerminates ==
    (last.op = "build") => last.exc \in {"", "ValidationError"}

\* C28 (SpecPricing): a pricing selector call that fails with the
\* invalid-price error is atomic: the order type, the price, the stop price
\* and the trailing fields of the builder are what they were before the call.
C28_FailedSelectorAtomic ==
    [][(last'.op \in PricingSelectors
        /\ last'.exc = "ValidationError" /\ last'.msg = "Price must be positive")
       => PricingState(builders'[last'.b]) = PricingState(builders[last'.b])]_vars

\* The calls that take an optional limit price as their third argument and
\* were given one.
LimitSupplied ==
    /\ last.op \in {"EZOrders_buy", "EZOrders_sell", "quick_buy", "quick_sell"}
    /\ last.args[3] # None

\* The order type and the price of the order the last call returned: the
\* attributes of the builder for the facade, the payload for the utilities.
Outcome ==
    IF last.op \in {"quick_buy", "quick_sell"}
    THEN [order_type |-> Some(last.value["orderType"]),
          price |-> IF "price" \in DOMAIN last.value
                    THEN Some(last.value["price"]) ELSE None]
    ELSE [order_type |-> builders[last.b].order_type,
          price |-> builders[last.b].price]

\* C29 (SpecCreate): when EZOrders.buy, EZOrders.sell, quick_buy or quick_sell
\* is given a limit price (0 included) the call either fails or returns a
\* LIMIT order priced at the formatted limit; it never returns a MARKET order.
C29_ExplicitLimitHonoured ==
    (LimitSupplied /\ last.exc = "")
        => /\ Outcome.order_type = Some("LIMIT")
           /\ Outcome.price = Some(_format_price(Val(last.args[3])).value)

\* The contracts of the strategy's sell-call orders, added up.
RECURSIVE ContractsSold(_, _)
ContractsSold(bs, orders) ==
    IF orders = <<>> THEN 0
    ELSE (IF bs[Head(orders)].legs[1].action = "SELL_TO_OPEN"
          THEN bs[Head(orders)].legs[1].quantity ELSE 0)
         + ContractsSold(bs, Tail(orders))

\* C30 (SpecCovered): after any sequence of buy_stock and sell_call calls, 100
\* times the contracts of all the strategy's sell-call orders never exceeds
\* the shares of all its buy-stock orders.
C30_CoverageInvariant ==
    100 * ContractsSold(builders, strategy.orders)
        <= SharesBought(builders, strategy.orders)

====
